---- MODULE Spec2Model ----
(***************************************************************************)
(* Order lifecycle of the aquaorder application: one Firestore "orders"    *)
(* collection written by a customer session (order creation), one owner    *)
(* session (status changes and driver assignment) and the driver sessions  *)
(* of Sessions (start delivery / mark delivered).  Every session acts on   *)
(* the last snapshot its live query delivered, which may be older than the *)
(* stored document; a session's own write shows in its lists at once       *)
(* (Firestore invokes the local listeners on a local write).               *)
(* Access is taken as granted (useRequireRole resolved, owner on the       *)
(* orders tab); query errors are not modelled.                             *)
(***************************************************************************)
EXTENDS Integers, FiniteSets, Sequences, TLC

\* ---------------------------------------------------------------- bounds
MaxOrders == 1
MaxTime == 1
\* identity changes to a signed-in principal that a guarded screen observes
MaxCalls == 2
\* documents in a snapshot of the dashboard query
MaxSnapshot == 2
\* delivered orders in a snapshot of a busy day
MaxDelivered == 15
\* the last instant of the clock of the owner dashboard
MaxClock == 5
\* instants of the clock in one local day
DayLength == 2

\* ------------------------------------------------------------- constants
Null == "null"
NullTime == -1

OrderStatus == {"PENDING", "CONFIRMED", "OUT_FOR_DELIVERY", "DELIVERED", "CANCELLED"}

DriverTab == {"CONFIRMED", "OUT_FOR_DELIVERY", "DELIVERED"}

OrderIds == 1..MaxOrders

Drivers == {"d1", "d2"}

Customers == {"c1"}

\* the drivers with an open DriverPage session (every driver of Drivers has a
\* role profile and can be assigned by the owner)
Sessions == {"d1"}

\* documents of the "users" collection (role profiles)
Users ==
  [u \in Drivers \cup {"own"} |->
     IF u = "own" THEN [role |-> "OWNER", isActive |-> TRUE, name |-> "Owner"]
     ELSE IF u = "d1" THEN [role |-> "DRIVER", isActive |-> TRUE, name |-> "n1"]
     ELSE [role |-> "DRIVER", isActive |-> TRUE, name |-> ""]]

\* user.displayName of the identity provider, per signed-in driver
displayName == [d \in Drivers |-> IF d = "d1" THEN Null ELSE "Dee"]

\* the liters preset the order form starts with (one of QUICK_LITERS)
QuickLiters == {1000}

\* principals that sign in on the owner and driver screens
Principals == {"own", "d1"}

\* values of the role field of a role profile ("undefined": no such field)
StoredRoles == {"OWNER", "DRIVER", "CUSTOMER", "undefined"}

\* a role profile as getDoc returns it: exists() and the fields isActive
\* ("true", "false", or "undefined" when the field is missing) and role
NoProfile == [exists |-> FALSE, isActive |-> "undefined", role |-> "undefined"]

ProfileShapes ==
  {NoProfile} \cup
  {[exists |-> TRUE, isActive |-> a, role |-> r] :
     a \in {"true", "false", "undefined"}, r \in StoredRoles}

\* the role profile of a user document of Users
ProfileOf(u) ==
  [exists |-> TRUE,
   isActive |-> IF Users[u].isActive THEN "true" ELSE "false",
   role |-> Users[u].role]

\* useRequireRole: useState initial value
InitialAuthz ==
  [loading |-> TRUE, user |-> Null, role |-> Null, error |-> Null,
   accessDenied |-> FALSE]

\* principals the identity provider can hand to a customer session
CustomerPrincipals == Customers \cup {"c2"}

\* text typed into a form field, as its sequence of characters
Texts == {<< >>, <<" ">>, <<" ", "A", "l">>}

\* values the liters field can hold: a quick preset or Number(custom input)
LitersInputs == QuickLiters \cup {0, 0 - 5}

\* value of <input type="date"> split at "-" and mapped to numbers
\* ("" has no parts)
DateInputs == {<< >>, <<2026, 11, 6>>}

\* value of <input type="time"> split at ":" and mapped to numbers
TimeInputs == {<< >>, <<0, 30>>}

\* OwnerTab
OwnerTab == {"dashboard", "orders", "settings"}

\* the effects of a guarded screen that subscribe: onAuthStateChanged of
\* useRequireRole, the four onSnapshot effects of OwnerPage and the three of
\* DriverPage
Slots ==
  {"auth", "orders", "dashboard", "drivers", "settings",
   "assigned", "unassigned", "driverSettings"}

EmptyDoc ==
  [customerUid |-> Null, liters |-> 0, status |-> Null,
   scheduleType |-> Null, scheduledFor |-> NullTime,
   assignedDriverUid |-> Null, assignedDriverName |-> Null,
   createdAt |-> NullTime, updatedAt |-> NullTime]

EmptyView ==
  [status |-> Null, assignedDriverUid |-> Null, assignedDriverName |-> Null]

\* value of the history variable last when the state was not produced by a
\* write: op, the acting principal, the order, the requested status (or
\* driver uid), the Order object the handler was called with, the stored
\* document before the write and the message a rejection set
NoOp == [op |-> "none", actor |-> Null, order |-> 0, req |-> Null,
         seen |-> EmptyView, before |-> EmptyDoc, msg |-> Null]

VARIABLES
  now,                  \* server clock read by serverTimestamp()
  store,                \* collection "orders": id -> document
  ownerSelectedStatus,  \* OwnerPage.selectedStatus
  ownerOrders,          \* OwnerPage.orders (last snapshot of statusQuery)
  ownerOrdersLoading,   \* OwnerPage.ordersLoading
  drivers,              \* OwnerPage.drivers (uid -> name)
  driversLoading,       \* OwnerPage.driversLoading
  driverSelections,     \* OwnerPage.driverSelections (order id -> uid, "" = none)
  driverSelectedStatus, \* DriverPage.selectedStatus, per driver session
  driverOrders,         \* DriverPage.orders (last snapshot of assignedQuery)
  driverOrdersLoading,  \* DriverPage.ordersLoading
  unassignedOrders,     \* DriverPage.unassignedOrders
  actionMessage,        \* DriverPage.actionMessage
  last,                 \* the write operation that produced this state, if any
  authUser,             \* CustomerPage.authUser (uid of the signed-in principal)
  form,                 \* CustomerPage form fields
  submitError,          \* CustomerPage.submitError
  orderId,              \* CustomerPage.orderId (0 = none)
  requiredRole,         \* useRequireRole: the role the screen requires
  currentUser,          \* auth.currentUser (uid, Null when signed out)
  profiles,             \* collection "users": uid -> role profile
  authz,                \* useRequireRole state
  calls,                \* the onAuthStateChanged callbacks started, in order
  isMounted,            \* useRequireRole effect: isMounted
  redirect,             \* path of the router.replace this step issued, if any
  dashboardMetrics,     \* OwnerPage.dashboardMetrics
  dashboardLoading,     \* OwnerPage.dashboardLoading
  dashboardError,       \* OwnerPage.dashboardError
  todayDocs,            \* the last snapshot of todayQuery delivered
  pricePer1000Value,    \* OwnerPage.pricePer1000Value
  deliveryFeeValue,     \* OwnerPage.deliveryFeeValue
  dailyGoalValue,       \* OwnerPage.dailyGoalValue
  todayRange,           \* OwnerPage.todayRange (useMemo with no dependencies)
  ownerOrdersError,     \* OwnerPage.ordersError
  driverOrdersError,    \* DriverPage.ordersError, per driver session
  unassignedError,      \* DriverPage.unassignedError, per driver session
  myOrdersError,        \* CustomerPage.myOrdersError
  activeTab,            \* OwnerPage.activeTab
  listeners,            \* per effect, the listeners not unsubscribed, each
                        \* named by the dependencies it was created with
  effectDeps            \* per effect, the dependencies of its last run

customerVars == <<authUser, form, submitError, orderId>>

authVars == <<requiredRole, currentUser, profiles, authz, calls, isMounted,
              redirect>>

dashVars == <<dashboardMetrics, dashboardLoading, dashboardError, todayDocs,
              pricePer1000Value, deliveryFeeValue, dailyGoalValue>>

\* the error states of the live queries, the owner's tab and day range, and
\* the subscriptions of a guarded screen
pageVars == <<todayRange, ownerOrdersError, driverOrdersError, unassignedError,
              myOrdersError, activeTab, listeners, effectDeps>>

\* the state of the screens that the order lifecycle does not track
auxVars == <<customerVars, authVars, dashVars, pageVars>>

vars == <<now, store, ownerSelectedStatus, ownerOrders, ownerOrdersLoading,
          drivers, driversLoading, driverSelections, driverSelectedStatus,
          driverOrders, driverOrdersLoading, unassignedOrders, actionMessage,
          last, auxVars>>

ownerVars == <<ownerSelectedStatus, ownerOrders, ownerOrdersLoading, drivers,
               driversLoading, driverSelections>>

driverVars == <<driverSelectedStatus, driverOrders, driverOrdersLoading,
                unassignedOrders, actionMessage>>

EmptyList == [o \in {} |-> EmptyView]

\* ----------------------------------------------------------- live queries
\* where("status", "==", selectedStatus)
statusQuery(status) ==
  {o \in DOMAIN store : store[o].status = status}

\* where("assignedDriverUid", "==", driverUid), where("status", "==", selectedStatus)
assignedQuery(driverUid, status) ==
  {o \in DOMAIN store :
     store[o].assignedDriverUid = driverUid /\ store[o].status = status}

\* where("assignedDriverUid", "==", null), where("status", "==", "CONFIRMED")
unassignedQuery ==
  {o \in DOMAIN store :
     store[o].assignedDriverUid = Null /\ store[o].status = "CONFIRMED"}

\* the fields of an Order object that the handlers and the render conditions
\* read (the others are only displayed)
OrderView(document) ==
  [status |-> document.status,
   assignedDriverUid |-> document.assignedDriverUid,
   assignedDriverName |-> document.assignedDriverName]

\* snapshot.docs.map(...): the documents of a query result as Order objects
SnapshotDocs(ids) == [o \in ids |-> OrderView(store[o])]

\* where("role", "==", "DRIVER"), where("isActive", "==", true)
driversQuery ==
  {u \in DOMAIN Users : Users[u].role = "DRIVER" /\ Users[u].isActive = TRUE}

\* name: data.name || `Driver ${id.slice(0, 6)}`
DriverOptionName(u) ==
  IF Users[u].name # "" THEN Users[u].name ELSE "Driver " \o u

\* a list with one document removed
Without(list, o) == [x \in (DOMAIN list) \ {o} |-> list[x]]

\* effect on [orders]: preselect the assigned driver of every listed order
\* that has one and no selection yet
PreselectDrivers(sel, list) ==
  [o \in OrderIds |->
     IF o \in DOMAIN list /\ list[o].assignedDriverUid # Null /\ sel[o] = ""
       THEN list[o].assignedDriverUid
       ELSE sel[o]]

\* ------------------------------------------------------ document writes
\* a document with the fields of a payload overwritten
Merge(document, payload) ==
  [f \in DOMAIN document |->
     IF f \in DOMAIN payload THEN payload[f] ELSE document[f]]

\* updateDoc refusing to replace a stored assigned driver
updateDocKeepDriver(id, payload) ==
  [store EXCEPT
     ![id] = Merge(store[id],
               IF store[id].assignedDriverUid # Null
                 THEN [f \in (DOMAIN payload)
                              \ {"assignedDriverUid", "assignedDriverName"} |->
                         payload[f]]
                 ELSE payload)]

\* updateDoc(doc(db, "orders", id), payload): only the payload's fields of the
\* stored document change
updateDoc(id, payload) ==
  [store EXCEPT ![id] = Merge(store[id], payload)]

\* what the writing session's own listener shows after its write: the
\* Order object it held with the payload applied
LocalDoc(held, payload) == Merge(held, payload)

\* the list of a live query after a local write to one of its documents
LocalList(list, o, localDoc, matches) ==
  IF matches
    THEN [x \in (DOMAIN list) \cup {o} |-> IF x = o THEN localDoc ELSE list[x]]
    ELSE Without(list, o)

\* ------------------------------------------------------------------ Init
\* CustomerPage after mount: no principal yet, the form at its defaults
EmptyForm ==
  [customerName |-> << >>, customerPhone |-> << >>, address |-> << >>,
   liters |-> 1000, scheduleType |-> "asap",
   scheduledDate |-> << >>, scheduledTime |-> << >>]

CustomerInit ==
  /\ authUser = Null
  /\ form = EmptyForm
  /\ submitError = Null
  /\ orderId = 0

\* the metrics object with every count at zero
EmptyMetrics ==
  [total |-> 0, liters |-> 0, byStatus |-> [s \in OrderStatus |-> 0],
   deliveredOrders |-> 0, deliveredLiters |-> 0]

\* the dashboard and the settings values of OwnerPage after mount
DashboardInit ==
  /\ dashboardMetrics = EmptyMetrics
  /\ dashboardLoading = TRUE
  /\ dashboardError = Null
  /\ todayDocs = << >>
  /\ pricePer1000Value = 0
  /\ deliveryFeeValue = 0
  /\ dailyGoalValue = 0

\* startOfToday(): local midnight of the day of the clock
startOfToday == now - (now % DayLength)

\* endOfToday(): startOfToday() with setDate(getDate() + 1)
endOfToday == startOfToday + DayLength

\* the query errors, the owner's tab and day range after mount; no effect
\* has run yet
PageInit ==
  /\ todayRange = [start |-> startOfToday, end |-> endOfToday]
  /\ ownerOrdersError = Null
  /\ driverOrdersError = [d \in Sessions |-> Null]
  /\ unassignedError = [d \in Sessions |-> Null]
  /\ myOrdersError = Null
  /\ activeTab = "orders"
  /\ listeners = [slot \in Slots |-> {}]
  /\ effectDeps = [slot \in Slots |-> << >>]

\* the role guard where it is not tracked: no screen mounted
AuthzIdle ==
  /\ requiredRole = "OWNER"
  /\ currentUser = Null
  /\ profiles = [u \in Principals |-> ProfileOf(u)]
  /\ authz = InitialAuthz
  /\ calls = << >>
  /\ isMounted = FALSE
  /\ redirect = Null

Init ==
  /\ now = 0
  /\ store = [o \in {} |-> EmptyDoc]
  /\ ownerSelectedStatus = "PENDING"
  /\ ownerOrders = EmptyList
  /\ ownerOrdersLoading = TRUE
  /\ drivers = [u \in {} |-> ""]
  /\ driversLoading = TRUE
  /\ driverSelections = [o \in OrderIds |-> ""]
  /\ driverSelectedStatus = [d \in Sessions |-> "CONFIRMED"]
  /\ driverOrders = [d \in Sessions |-> EmptyList]
  /\ driverOrdersLoading = [d \in Sessions |-> TRUE]
  /\ unassignedOrders = [d \in Sessions |-> EmptyList]
  /\ actionMessage = [d \in Sessions |-> Null]
  /\ last = NoOp
  /\ CustomerInit
  /\ PageInit
  /\ DashboardInit
  /\ AuthzIdle

\* the server clock advances
Tick ==
  /\ now < MaxTime
  /\ now' = now + 1
  /\ last' = NoOp
  /\ UNCHANGED auxVars
  /\ UNCHANGED <<store, ownerVars, driverVars>>

\* ------------------------------------------------------------- customer
\* the document handleSubmit hands to addDoc (of its fields, those that some
\* query, handler or render condition reads; name, phone, address, landmark,
\* water type and payment method are only displayed)
NewOrderConfirmed(uid, liters, scheduleType, scheduledFor) ==
  [customerUid |-> uid, liters |-> liters,
   scheduleType |-> scheduleType, scheduledFor |-> scheduledFor,
   status |-> "CONFIRMED",
   assignedDriverUid |-> Null, assignedDriverName |-> Null,
   createdAt |-> now, updatedAt |-> now]

NewOrder(uid, liters, scheduleType, scheduledFor) ==
  [customerUid |-> uid, liters |-> liters,
   scheduleType |-> scheduleType, scheduledFor |-> scheduledFor,
   status |-> "PENDING",
   assignedDriverUid |-> Null, assignedDriverName |-> Null,
   createdAt |-> now, updatedAt |-> now]

\* CustomerPage.handleSubmit with a signed-in principal and a valid form:
\* addDoc(collection "orders", {...})
handleSubmit(c, liters) ==
  /\ liters > 0
  /\ \E id \in OrderIds :
       /\ id \notin DOMAIN store
       /\ \A j \in OrderIds : j < id => j \in DOMAIN store
       /\ store' = [o \in (DOMAIN store) \cup {id} |->
                      IF o = id
                        THEN NewOrder(c, liters, "asap", NullTime)
                        ELSE store[o]]
       /\ last' = [op |-> "submit", actor |-> c, order |-> id,
                   req |-> "PENDING", seen |-> EmptyView, before |-> EmptyDoc,
                   msg |-> Null]
  /\ UNCHANGED auxVars
  /\ UNCHANGED <<now, ownerVars, driverVars>>

\* ---------------------------------------------------------------- owner
\* onSnapshot(statusQuery) callback: setOrders, setOrdersLoading(false), and
\* the [orders] effect that preselects assigned drivers
OwnerOrdersSnapshot ==
  /\ ownerOrders' = SnapshotDocs(statusQuery(ownerSelectedStatus))
  /\ ownerOrdersLoading' = FALSE
  /\ driverSelections' = PreselectDrivers(driverSelections, ownerOrders')
  /\ last' = NoOp
  /\ UNCHANGED auxVars
  /\ UNCHANGED <<now, store, ownerSelectedStatus, drivers, driversLoading,
                 driverVars>>

\* onSnapshot(driversQuery) callback: setDrivers, setDriversLoading(false)
OwnerDriversSnapshot ==
  /\ drivers' = [u \in driversQuery |-> DriverOptionName(u)]
  /\ driversLoading' = FALSE
  /\ last' = NoOp
  /\ UNCHANGED auxVars
  /\ UNCHANGED <<now, store, ownerSelectedStatus, ownerOrders,
                 ownerOrdersLoading, driverSelections, driverVars>>

\* status tab button: setSelectedStatus(status); the subscription effect
\* re-runs for the new statusQuery, sets ordersLoading and clears ordersError
OwnerSelectStatus(status) ==
  /\ status # ownerSelectedStatus
  /\ ownerSelectedStatus' = status
  /\ ownerOrdersLoading' = TRUE
  /\ ownerOrdersError' = Null
  /\ last' = NoOp
  /\ UNCHANGED <<customerVars, authVars, dashVars, todayRange,
                 driverOrdersError, unassignedError, myOrdersError, activeTab,
                 listeners, effectDeps>>
  /\ UNCHANGED <<now, store, ownerOrders, drivers, driversLoading,
                 driverSelections, driverVars>>

\* the order cards are rendered only when !ordersLoading && !ordersError
OwnerSees(o) ==
  ~ownerOrdersLoading /\ ownerOrdersError = Null /\ o \in DOMAIN ownerOrders

\* canAssign = order.status === "PENDING" || order.status === "CONFIRMED"
canAssign(order) == order.status = "PENDING" \/ order.status = "CONFIRMED"

\* the action buttons rendered for an order card
OwnerButtons(order) ==
  IF order.status = "PENDING" THEN {"CONFIRMED", "CANCELLED"}
  ELSE IF order.status = "CONFIRMED" THEN {"PENDING", "CANCELLED"}
  ELSE {}

\* OwnerPage.updateStatus storing the button's label instead of the status
OwnerStatusPayloadLabel(status) ==
  [status |-> IF status = "PENDING" THEN "REVERTED" ELSE status,
   updatedAt |-> now]

\* OwnerPage.updateStatus releasing the driver when it reverts to PENDING
OwnerStatusPayloadRelease(status) ==
  IF status = "PENDING"
    THEN [status |-> status, updatedAt |-> now,
          assignedDriverUid |-> Null, assignedDriverName |-> Null]
    ELSE [status |-> status, updatedAt |-> now]

\* payload of OwnerPage.updateStatus
OwnerStatusPayload(status) == [status |-> status, updatedAt |-> now]

\* a click on Confirm / Cancel / Revert to Pending: OwnerPage.updateStatus
OwnerUpdateStatus(o, status) ==
  /\ OwnerSees(o)
  /\ status \in OwnerButtons(ownerOrders[o])
  /\ LET payload == OwnerStatusPayload(status)
         localDoc == LocalDoc(ownerOrders[o], payload)
     IN /\ store' = updateDoc(o, payload)
        /\ ownerOrders' = LocalList(ownerOrders, o, localDoc,
                                    localDoc.status = ownerSelectedStatus)
        /\ driverSelections' = PreselectDrivers(driverSelections, ownerOrders')
        /\ last' = [op |-> "ownerStatus", actor |-> "own", order |-> o,
                    req |-> status, seen |-> ownerOrders[o],
                    before |-> store[o], msg |-> Null]
  /\ UNCHANGED auxVars
  /\ UNCHANGED <<now, ownerSelectedStatus, ownerOrdersLoading, drivers,
                 driversLoading, driverVars>>

\* the driver <select> of an assignable order card (disabled while the
\* drivers are loading): setDriverSelections
OwnerSelectDriver(o, uid) ==
  /\ OwnerSees(o)
  /\ canAssign(ownerOrders[o])
  /\ ~driversLoading
  /\ uid \in (DOMAIN drivers) \cup {""}
  /\ uid # driverSelections[o]
  /\ driverSelections' = [driverSelections EXCEPT ![o] = uid]
  /\ last' = NoOp
  /\ UNCHANGED auxVars
  /\ UNCHANGED <<now, store, ownerSelectedStatus, ownerOrders,
                 ownerOrdersLoading, drivers, driversLoading, driverVars>>

\* OwnerPage.handleAssignDriver storing no name for a driver it cannot find
AssignPayloadNoFallback(selectedUid) ==
  [assignedDriverUid |-> selectedUid,
   assignedDriverName |->
     IF selectedUid \in DOMAIN drivers THEN drivers[selectedUid] ELSE Null,
   updatedAt |-> now]

\* payload of OwnerPage.handleAssignDriver
AssignPayload(selectedUid) ==
  [assignedDriverUid |-> selectedUid,
   assignedDriverName |->
     IF selectedUid \in DOMAIN drivers THEN drivers[selectedUid] ELSE "Driver",
   updatedAt |-> now]

\* a click on Assign Driver: OwnerPage.handleAssignDriver
handleAssignDriver(o) ==
  /\ OwnerSees(o)
  /\ canAssign(ownerOrders[o])
  /\ driverSelections[o] # ""
  /\ LET payload == AssignPayload(driverSelections[o])
         localDoc == LocalDoc(ownerOrders[o], payload)
     IN /\ store' = updateDoc(o, payload)
        /\ ownerOrders' = LocalList(ownerOrders, o, localDoc,
                                    localDoc.status = ownerSelectedStatus)
        /\ driverSelections' = PreselectDrivers(driverSelections, ownerOrders')
        /\ last' = [op |-> "assign", actor |-> "own", order |-> o,
                    req |-> driverSelections[o], seen |-> ownerOrders[o],
                    before |-> store[o], msg |-> Null]
  /\ UNCHANGED auxVars
  /\ UNCHANGED <<now, ownerSelectedStatus, ownerOrdersLoading, drivers,
                 driversLoading, driverVars>>

\* the owner page is loaded again: every piece of component state restarts
\* from its useState initial value
OwnerReload ==
  /\ ownerSelectedStatus' = "PENDING"
  /\ ownerOrders' = EmptyList
  /\ ownerOrdersLoading' = TRUE
  /\ drivers' = [u \in {} |-> ""]
  /\ driversLoading' = TRUE
  /\ driverSelections' = [o \in OrderIds |-> ""]
  /\ last' = NoOp
  /\ UNCHANGED auxVars
  /\ UNCHANGED <<now, store, driverVars>>

\* --------------------------------------------------------------- driver
\* onSnapshot(assignedQuery) callback: setOrders, setOrdersLoading(false)
DriverOrdersSnapshot(d) ==
  /\ driverOrders' =
       [driverOrders EXCEPT
          ![d] = SnapshotDocs(assignedQuery(d, driverSelectedStatus[d]))]
  /\ driverOrdersLoading' = [driverOrdersLoading EXCEPT ![d] = FALSE]
  /\ last' = NoOp
  /\ UNCHANGED auxVars
  /\ UNCHANGED <<now, store, ownerVars, driverSelectedStatus,
                 unassignedOrders, actionMessage>>

\* onSnapshot(unassignedQuery) callback; the query exists only on the
\* CONFIRMED tab
DriverUnassignedSnapshot(d) ==
  /\ driverSelectedStatus[d] = "CONFIRMED"
  /\ unassignedOrders' =
       [unassignedOrders EXCEPT ![d] = SnapshotDocs(unassignedQuery)]
  /\ last' = NoOp
  /\ UNCHANGED auxVars
  /\ UNCHANGED <<now, store, ownerVars, driverSelectedStatus, driverOrders,
                 driverOrdersLoading, actionMessage>>

\* DriverPage.handleStatusChange
handleStatusChange(d, status) ==
  /\ driverSelectedStatus' = [driverSelectedStatus EXCEPT ![d] = status]
  /\ driverOrdersLoading' = [driverOrdersLoading EXCEPT ![d] = TRUE]
  /\ driverOrdersError' = [driverOrdersError EXCEPT ![d] = Null]
  /\ actionMessage' = [actionMessage EXCEPT ![d] = Null]
  /\ unassignedOrders' =
       IF status = "CONFIRMED" THEN unassignedOrders
       ELSE [unassignedOrders EXCEPT ![d] = EmptyList]
  /\ unassignedError' = [unassignedError EXCEPT ![d] = Null]
  /\ last' = NoOp
  /\ UNCHANGED <<customerVars, authVars, dashVars, todayRange,
                 ownerOrdersError, myOrdersError, activeTab, listeners,
                 effectDeps>>
  /\ UNCHANGED <<now, store, ownerVars, driverOrders>>

\* the order cards a driver session renders: its assigned list when
\* !ordersLoading && !ordersError, the unassigned list on the CONFIRMED tab
DriverSees(d, list, o) ==
  IF list = "assigned"
    THEN /\ ~driverOrdersLoading[d]
         /\ driverOrdersError[d] = Null
         /\ o \in DOMAIN driverOrders[d]
    ELSE driverSelectedStatus[d] = "CONFIRMED" /\ o \in DOMAIN unassignedOrders[d]

\* the Order object of a rendered card
DriverCard(d, list, o) ==
  IF list = "assigned" THEN driverOrders[d][o] ELSE unassignedOrders[d][o]

\* the order cards without the Mark Delivered button
DriverButtonsStartOnly(order) ==
  IF order.status = "CONFIRMED" THEN {"OUT_FOR_DELIVERY"} ELSE {}

\* the action button rendered for an order card
DriverButtons(order) ==
  IF order.status = "CONFIRMED" THEN {"OUT_FOR_DELIVERY"}
  ELSE IF order.status = "OUT_FOR_DELIVERY" THEN {"DELIVERED"}
  ELSE {}

\* the message DriverPage.updateStatus rejects with, Null when it goes on
\* to write
RejectMessage(order, status) ==
  IF status = "OUT_FOR_DELIVERY" /\ order.status # "CONFIRMED"
    THEN "This delivery is no longer in the confirmed stage."
  ELSE IF status = "DELIVERED" /\ order.status # "OUT_FOR_DELIVERY"
    THEN "This delivery is not out for delivery yet."
  ELSE Null

\* DriverPage.updateStatus claiming first and leaving the status to a
\* second write
DriverPayloadClaimFirst(d, order, status) ==
  IF status = "OUT_FOR_DELIVERY" /\ order.assignedDriverUid = Null
    THEN [updatedAt |-> now,
          assignedDriverUid |-> d,
          assignedDriverName |->
            IF order.assignedDriverName # Null THEN order.assignedDriverName
            ELSE IF displayName[d] # Null THEN displayName[d]
            ELSE "Driver"]
    ELSE [status |-> status, updatedAt |-> now]

\* DriverPage.updateStatus without the self-assignment
DriverPayloadStatusOnly(d, order, status) ==
  [status |-> status, updatedAt |-> now]

\* payload of DriverPage.updateStatus
DriverPayload(d, order, status) ==
  IF status = "OUT_FOR_DELIVERY" /\ order.assignedDriverUid = Null
    THEN [status |-> status, updatedAt |-> now,
          assignedDriverUid |-> d,
          assignedDriverName |->
            IF order.assignedDriverName # Null THEN order.assignedDriverName
            ELSE IF displayName[d] # Null THEN displayName[d]
            ELSE "Driver"]
    ELSE [status |-> status, updatedAt |-> now]

\* DriverPage.updateStatus returning on a rejection only after it has
\* stamped the document
RejectedUpdateTouch(d, o, order, status, message) ==
  /\ store' = updateDoc(o, [updatedAt |-> now])
  /\ UNCHANGED <<driverOrders, unassignedOrders>>
  /\ last' = [op |-> "driverStatus", actor |-> d, order |-> o,
              req |-> status, seen |-> order,
              before |-> store[o], msg |-> message]

\* DriverPage.updateStatus on a rejection: setActionMessage and return
RejectedUpdate(d, o, order, status, message) ==
  /\ UNCHANGED <<store, driverOrders, unassignedOrders>>
  /\ last' = [op |-> "driverStatus", actor |-> d, order |-> o,
              req |-> status, seen |-> order,
              before |-> store[o], msg |-> message]

\* DriverPage.updateStatus(order, status) in the session of driver d, for
\* the Order object order of document o
DriverPageUpdateStatus(d, o, order, status) ==
     LET message == RejectMessage(order, status)
         payload == DriverPayload(d, order, status)
         localDoc == LocalDoc(order, payload)
     IN /\ actionMessage' = [actionMessage EXCEPT ![d] = message]
        /\ IF message # Null
             THEN RejectedUpdate(d, o, order, status, message)
             ELSE /\ store' = updateDoc(o, payload)
                  /\ driverOrders' =
                       [driverOrders EXCEPT
                          ![d] = LocalList(driverOrders[d], o, localDoc,
                                   /\ localDoc.assignedDriverUid = d
                                   /\ localDoc.status = driverSelectedStatus[d])]
                  /\ unassignedOrders' =
                       IF driverSelectedStatus[d] # "CONFIRMED"
                         THEN unassignedOrders
                         ELSE [unassignedOrders EXCEPT
                                 ![d] = LocalList(unassignedOrders[d], o, localDoc,
                                          /\ localDoc.assignedDriverUid = Null
                                          /\ localDoc.status = "CONFIRMED")]
                  /\ last' = [op |-> "driverStatus", actor |-> d, order |-> o,
                              req |-> status, seen |-> order,
                              before |-> store[o], msg |-> Null]

\* a click on Start Delivery / Mark Delivered: DriverPage.updateStatus
DriverUpdateStatus(d, list, o, status) ==
  /\ DriverSees(d, list, o)
  /\ status \in DriverButtons(DriverCard(d, list, o))
  /\ DriverPageUpdateStatus(d, o, DriverCard(d, list, o), status)
  /\ UNCHANGED auxVars
  /\ UNCHANGED <<now, ownerVars, driverSelectedStatus, driverOrdersLoading>>

\* ------------------------------------------------------------------ Next
Next ==
  \/ Tick
  \/ \E c \in Customers, liters \in QuickLiters : handleSubmit(c, liters)
  \/ OwnerOrdersSnapshot
  \/ OwnerDriversSnapshot
  \/ \E status \in OrderStatus : OwnerSelectStatus(status)
  \/ \E o \in OrderIds, status \in OrderStatus : OwnerUpdateStatus(o, status)
  \/ \E o \in OrderIds, uid \in Drivers \cup {""} : OwnerSelectDriver(o, uid)
  \/ \E o \in OrderIds : handleAssignDriver(o)
  \/ OwnerReload
  \/ \E d \in Sessions : DriverOrdersSnapshot(d)
  \/ \E d \in Sessions : DriverUnassignedSnapshot(d)
  \/ \E d \in Sessions, status \in DriverTab : handleStatusChange(d, status)
  \/ \E d \in Sessions, list \in {"assigned", "unassigned"}, o \in OrderIds,
        status \in OrderStatus : DriverUpdateStatus(d, list, o, status)

Spec == Init /\ [][Next]_vars

\* ================================================================ claims
Terminal == {"DELIVERED", "CANCELLED"}

SixSteps ==
  {<<"PENDING", "CONFIRMED">>, <<"PENDING", "CANCELLED">>,
   <<"CONFIRMED", "PENDING">>, <<"CONFIRMED", "CANCELLED">>,
   <<"CONFIRMED", "OUT_FOR_DELIVERY">>, <<"OUT_FOR_DELIVERY", "DELIVERED">>}

\* the state was produced by an owner or driver operation on a stored order
Operated == last.op \in {"ownerStatus", "assign", "driverStatus"}

\* C1: once the stored status of an order is DELIVERED or CANCELLED, no
\* owner or driver operation changes it.
C1_TerminalIsFinal ==
  (Operated /\ last.before.status \in Terminal)
    => store[last.order].status = last.before.status

\* C2: every change of a stored status is one of the six steps of the
\* lifecycle.
C2_OnlySixSteps ==
  (Operated /\ store[last.order].status # last.before.status)
    => <<last.before.status, store[last.order].status>> \in SixSteps

\* C3: an owner status operation whose from-state (the status the owner's
\* card showed) is no longer the stored status writes nothing.
C3_OwnerRereadsStatus ==
  (last.op = "ownerStatus" /\ last.before.status # last.seen.status)
    => store[last.order] = last.before

\* C4: start delivery on an order whose stored status is not CONFIRMED fails
\* with the 'no longer in the confirmed stage' message and leaves the stored
\* status unchanged.
C4_StaleStartDeliveryFails ==
  (/\ last.op = "driverStatus"
   /\ last.req = "OUT_FOR_DELIVERY"
   /\ last.before.status # "CONFIRMED")
    => /\ last.msg = "This delivery is no longer in the confirmed stage."
       /\ store[last.order].status = last.before.status

\* C5: every stored order's status is one of the five values of OrderStatus.
C5_StatusInEnum ==
  \A o \in DOMAIN store : store[o].status \in OrderStatus

\* C5 witness: orders created by the customer whose status was then written
\* by the owner and by the driver.
C5_Witness ==
  /\ last.op = "driverStatus"
  /\ last.msg = Null
  /\ store[last.order].status = "DELIVERED"
  /\ store[last.order].customerUid \in Customers

\* the state was produced by a driver claiming an order that its card showed
\* without an assigned driver
Claimed ==
  /\ last.op = "driverStatus"
  /\ last.msg = Null
  /\ last.req = "OUT_FOR_DELIVERY"
  /\ last.seen.assignedDriverUid = Null

\* C6: the write of a claim by driver X leaves the order OUT_FOR_DELIVERY and
\* assigned to X at once: the state after it never has assignedDriverUid = X
\* with the status it had before.
C6_ClaimIsOneWrite ==
  Claimed => /\ store[last.order].status = "OUT_FOR_DELIVERY"
             /\ store[last.order].assignedDriverUid = last.actor

\* C6 witness: an unassigned CONFIRMED order has just been claimed.
C6_Witness ==
  /\ Claimed
  /\ last.before.status = "CONFIRMED"
  /\ last.before.assignedDriverUid = Null
  /\ store[last.order].assignedDriverUid = last.actor

\* C7: start delivery on an order whose stored assignedDriverUid is not null
\* leaves assignedDriverUid and assignedDriverName unchanged.
C7_SelfAssignOnlyIfUnassigned ==
  (/\ last.op = "driverStatus"
   /\ last.req = "OUT_FOR_DELIVERY"
   /\ last.before.assignedDriverUid # Null)
    => /\ store[last.order].assignedDriverUid = last.before.assignedDriverUid
       /\ store[last.order].assignedDriverName = last.before.assignedDriverName

\* C8: an owner assignment never changes the assigned driver of an order
\* whose stored status is OUT_FOR_DELIVERY, DELIVERED or CANCELLED.
C8_AssignOnlyPendingOrConfirmed ==
  (last.op = "assign" /\ last.before.status \notin {"PENDING", "CONFIRMED"})
    => store[last.order].assignedDriverUid = last.before.assignedDriverUid

\* C9: assigning driver D to an order already assigned to D changes only
\* updatedAt.
C9_AssignIsIdempotent ==
  (last.op = "assign" /\ last.before.assignedDriverUid = last.req)
    => [store[last.order] EXCEPT !.updatedAt = last.before.updatedAt]
         = last.before

\* C10: assignedDriverUid and assignedDriverName of a stored order are both
\* null or both non-null.
C10_DriverPairBothOrNeither ==
  \A o \in DOMAIN store :
    (store[o].assignedDriverUid = Null) <=> (store[o].assignedDriverName = Null)

\* C10 witness: the owner has just assigned a driver that is not in its
\* drivers list (the list had not loaded yet).
C10_Witness ==
  /\ last.op = "assign"
  /\ last.req \notin DOMAIN drivers
  /\ store[last.order].assignedDriverUid # Null
  /\ store[last.order].assignedDriverName # Null

\* ===================================================== customer order form
\* String.prototype.trim on a sequence of characters
RECURSIVE TrimStart(_)
TrimStart(t) ==
  IF t # << >> /\ Head(t) = " " THEN TrimStart(Tail(t)) ELSE t

RECURSIVE TrimEnd(_)
TrimEnd(t) ==
  IF t # << >> /\ t[Len(t)] = " "
    THEN TrimEnd(SubSeq(t, 1, Len(t) - 1))
    ELSE t

Trim(t) == TrimEnd(TrimStart(t))

\* Timestamp.fromDate(new Date(year, monthIndex, day, hour, minute)) as the
\* count of minutes on a calendar of 12 months of 31 days
DateOf(year, monthIndex, day, hour, minute) ==
  ((year * 12 + monthIndex) * 31 + day) * 1440 + hour * 60 + minute

\* useMemo scheduledTimestamp (NullTime stands for null)
scheduledTimestamp ==
  IF form.scheduleType = "asap" THEN NullTime
  ELSE IF form.scheduledDate = << >> \/ form.scheduledTime = << >> THEN NullTime
  ELSE LET year == form.scheduledDate[1]
           month == form.scheduledDate[2]
           day == form.scheduledDate[3]
           hour == form.scheduledTime[1]
           minute == form.scheduledTime[2]
       IN IF year = 0 \/ month = 0 \/ day = 0
            THEN NullTime
            ELSE DateOf(year, month - 1, day, hour, minute)

\* the checks of handleSubmit without the one on the schedule
SubmitErrorNoSchedule ==
  IF authUser = Null
    THEN "Signing you in. Please try again in a moment."
  ELSE IF \/ Trim(form.customerName) = << >>
          \/ Trim(form.customerPhone) = << >>
          \/ Trim(form.address) = << >>
    THEN "Please complete your name, phone, and address."
  ELSE IF form.liters = 0 \/ form.liters <= 0
    THEN "Please choose a valid liters amount."
  ELSE Null

\* the checks handleSubmit makes before it writes: the message of the first
\* one that fails, Null when all pass
SubmitError ==
  IF authUser = Null
    THEN "Signing you in. Please try again in a moment."
  ELSE IF \/ Trim(form.customerName) = << >>
          \/ Trim(form.customerPhone) = << >>
          \/ Trim(form.address) = << >>
    THEN "Please complete your name, phone, and address."
  ELSE IF form.liters = 0 \/ form.liters <= 0
    THEN "Please choose a valid liters amount."
  ELSE IF form.scheduleType = "later" /\ scheduledTimestamp = NullTime
    THEN "Please select a delivery date and time."
  ELSE Null

lifecycleVars == <<now, ownerVars, driverVars, pageVars>>

\* onAuthStateChanged callback of CustomerPage
CustomerAuthStateChanged(user) ==
  /\ authUser' = user
  /\ last' = NoOp
  /\ UNCHANGED <<store, lifecycleVars, form, submitError, orderId, authVars,
                 dashVars>>

\* an input of the order form changes one field (the form is rendered while
\* no order id is shown)
SetField(field, value) ==
  /\ orderId = 0
  /\ form' = [form EXCEPT ![field] = value]
  /\ last' = NoOp
  /\ UNCHANGED <<store, lifecycleVars, authUser, submitError, orderId,
                 authVars, dashVars>>

\* "Place another order"
resetForm ==
  /\ orderId # 0
  /\ form' = EmptyForm
  /\ submitError' = Null
  /\ orderId' = 0
  /\ last' = NoOp
  /\ UNCHANGED <<store, lifecycleVars, authUser, authVars, dashVars>>

\* CustomerPage.handleSubmit from the state of the form
CustomerSubmit ==
  /\ orderId = 0
  /\ IF SubmitError # Null
       THEN /\ submitError' = SubmitError
            /\ last' = [op |-> "reject", actor |-> authUser, order |-> 0,
                        req |-> Null, seen |-> EmptyView, before |-> EmptyDoc,
                        msg |-> SubmitError]
            /\ UNCHANGED <<store, orderId>>
       ELSE \E id \in OrderIds :
              /\ id \notin DOMAIN store
              /\ \A j \in OrderIds : j < id => j \in DOMAIN store
              /\ store' = [o \in (DOMAIN store) \cup {id} |->
                             IF o = id
                               THEN NewOrder(authUser, form.liters,
                                             form.scheduleType,
                                             scheduledTimestamp)
                               ELSE store[o]]
              /\ orderId' = id
              /\ submitError' = Null
              /\ last' = [op |-> "submit", actor |-> authUser, order |-> id,
                          req |-> "PENDING", seen |-> EmptyView,
                          before |-> EmptyDoc, msg |-> Null]
  /\ UNCHANGED <<lifecycleVars, authUser, form, authVars, dashVars>>

NextCustomer ==
  \/ \E user \in CustomerPrincipals \cup {Null} : CustomerAuthStateChanged(user)
  \/ \E t \in Texts : SetField("customerName", t)
  \/ \E t \in Texts : SetField("customerPhone", t)
  \/ \E t \in Texts : SetField("address", t)
  \/ \E v \in LitersInputs : SetField("liters", v)
  \/ \E t \in {"asap", "later"} : SetField("scheduleType", t)
  \/ \E d \in DateInputs : SetField("scheduledDate", d)
  \/ \E t \in TimeInputs : SetField("scheduledTime", t)
  \/ resetForm
  \/ CustomerSubmit

SpecCustomer == Init /\ [][NextCustomer]_vars

\* C11: every order the customer submit creates starts PENDING with no
\* assigned driver (uid and name null) and carries as customerUid the
\* principal signed in on the submitting session
C11_CreatedOrderIsPending ==
  last.op = "submit" =>
    /\ authUser # Null
    /\ store[last.order].customerUid = authUser
    /\ store[last.order].status = "PENDING"
    /\ store[last.order].assignedDriverUid = Null
    /\ store[last.order].assignedDriverName = Null

C11_Witness ==
  /\ last.op = "submit"
  /\ authUser = "c2"
  /\ store[last.order].scheduleType = "later"

\* the form states the submit must refuse
InvalidForm ==
  \/ authUser = Null
  \/ Trim(form.customerName) = << >>
  \/ Trim(form.customerPhone) = << >>
  \/ Trim(form.address) = << >>
  \/ ~(form.liters > 0)
  \/ /\ form.scheduleType = "later"
     /\ (form.scheduledDate = << >> \/ form.scheduledTime = << >>)

\* C12: a submit with no principal, a blank name, phone or address, liters
\* not positive, or schedule "later" without date and time writes nothing
\* and sets the inline error; so every stored order has liters > 0 and, when
\* scheduled for later, a scheduledFor
C12_InvalidSubmitWritesNothing ==
  /\ [](\A o \in DOMAIN store :
          /\ store[o].liters > 0
          /\ store[o].scheduleType = "later" => store[o].scheduledFor # NullTime)
  /\ [][(InvalidForm /\ last'.op \in {"submit", "reject"}) =>
          (store' = store /\ submitError' # Null /\ last'.op = "reject")]_vars

C12_Witness ==
  /\ last.op = "reject"
  /\ submitError = "Please select a delivery date and time."
  /\ form.scheduledDate # << >>
  /\ store = [o \in {} |-> EmptyDoc]

\* ============================== DriverPage.updateStatus on any arguments
\* The order cards call updateStatus only with the status their button is
\* rendered for; here the function is applied to every Order object and
\* every requested status.

\* assignment pairs a stored order can carry
Assignments ==
  {<<Null, Null>>, <<"d1", "n1">>, <<"d1", "Driver">>, <<"d2", "Driver d2">>}

\* documents of the collection: any status; out for delivery or delivered
\* only with a driver
StoredOrders ==
  {doc \in
     {[customerUid |-> "c1", liters |-> 1000,
       scheduleType |-> "asap", scheduledFor |-> NullTime,
       status |-> st, assignedDriverUid |-> a[1], assignedDriverName |-> a[2],
       createdAt |-> 0, updatedAt |-> 0] :
        st \in OrderStatus, a \in Assignments} :
     doc.status \in {"OUT_FOR_DELIVERY", "DELIVERED"} =>
       doc.assignedDriverUid # Null}

\* Order objects a caller can pass
OrderObjects ==
  {[status |-> st, assignedDriverUid |-> a[1], assignedDriverName |-> a[2]] :
     st \in OrderStatus, a \in Assignments}

InitDriverCall ==
  /\ now \in 0..MaxTime
  /\ store \in [OrderIds -> StoredOrders]
  /\ ownerSelectedStatus = "PENDING"
  /\ ownerOrders = EmptyList
  /\ ownerOrdersLoading = TRUE
  /\ drivers = [u \in {} |-> ""]
  /\ driversLoading = TRUE
  /\ driverSelections = [o \in OrderIds |-> ""]
  /\ driverSelectedStatus = [d \in Sessions |-> "CONFIRMED"]
  /\ driverOrders = [d \in Sessions |-> EmptyList]
  /\ driverOrdersLoading = [d \in Sessions |-> TRUE]
  /\ unassignedOrders = [d \in Sessions |-> EmptyList]
  /\ actionMessage = [d \in Sessions |-> Null]
  /\ last = NoOp
  /\ CustomerInit
  /\ PageInit
  /\ DashboardInit
  /\ AuthzIdle

\* updateStatus(order, status) called in the session of driver d
DriverCallUpdateStatus(d, o, order, status) ==
  /\ o \in DOMAIN store
  /\ DriverPageUpdateStatus(d, o, order, status)
  /\ UNCHANGED auxVars
  /\ UNCHANGED <<now, ownerVars, driverSelectedStatus, driverOrdersLoading>>

NextDriverCall ==
  \/ Tick
  \/ \E d \in Sessions, o \in OrderIds, order \in OrderObjects,
        status \in OrderStatus : DriverCallUpdateStatus(d, o, order, status)

SpecDriverCall == InitDriverCall /\ [][NextDriverCall]_vars

\* C13: when the driver's updateStatus reports a rejection (start delivery
\* on an order not CONFIRMED, mark delivered on one not OUT_FOR_DELIVERY) it
\* writes nothing: status, assignedDriverUid, assignedDriverName and
\* updatedAt of the stored order are as before
C13_RejectedTransitionWritesNothing ==
  (last.op = "driverStatus" /\ last.msg # Null) =>
    /\ \/ last.req = "OUT_FOR_DELIVERY" /\ last.seen.status # "CONFIRMED"
       \/ last.req = "DELIVERED" /\ last.seen.status # "OUT_FOR_DELIVERY"
    /\ store[last.order].status = last.before.status
    /\ store[last.order].assignedDriverUid = last.before.assignedDriverUid
    /\ store[last.order].assignedDriverName = last.before.assignedDriverName
    /\ store[last.order].updatedAt = last.before.updatedAt
    /\ actionMessage[last.actor] = last.msg

C13_Witness ==
  /\ last.op = "driverStatus"
  /\ last.msg = "This delivery is not out for delivery yet."
  /\ last.seen.status = "CONFIRMED"
  /\ last.before.status = "OUT_FOR_DELIVERY"
  /\ now > last.before.updatedAt

\* ============================================== role guard (useRequireRole)
\* getUserRole without the isActive check
getUserRoleIgnoreActive(uid) ==
  LET snapshot == profiles[uid]
  IN IF ~snapshot.exists THEN Null
     ELSE IF snapshot.role = "OWNER" \/ snapshot.role = "DRIVER"
       THEN snapshot.role
     ELSE Null

\* getUserRole(uid)
getUserRole(uid) ==
  LET snapshot == profiles[uid]
  IN IF ~snapshot.exists THEN Null
     ELSE IF snapshot.isActive = "false" THEN Null
     ELSE IF snapshot.role = "OWNER" \/ snapshot.role = "DRIVER"
       THEN snapshot.role
     ELSE Null

\* the login path a guarded screen redirects to
redirectPath == IF requiredRole = "OWNER" THEN "/auth/owner" ELSE "/auth/driver"

\* the synchronous part of the onAuthStateChanged callback: the state it
\* sets for the user it is called with
CallbackState(user) ==
  [loading |-> TRUE, user |-> user, role |-> Null, error |-> Null,
   accessDenied |-> FALSE]

\* the callbacks started once the callback has been called with user: one
\* more, waiting for getUserRole, when user is a principal
CallsAfter(started, user) ==
  IF user = Null THEN started
  ELSE Append(started, [user |-> user, pc |-> "lookup"])

\* the role check of the callback accepting any resolved role
RoleAcceptedAny(role) == role # Null

\* the role check of the callback: !(!role || role !== requiredRole)
RoleAccepted(role) == role # Null /\ role = requiredRole

\* the state of an authz step in the history variable
AuthzOp(op, user, role, message) ==
  [op |-> op, actor |-> user, order |-> 0, req |-> role, seen |-> EmptyView,
   before |-> EmptyDoc, msg |-> message]

\* a guarded screen after mount and the first onAuthStateChanged callback
InitAuthz ==
  /\ now = 0
  /\ store = [o \in {} |-> EmptyDoc]
  /\ ownerSelectedStatus = "PENDING"
  /\ ownerOrders = EmptyList
  /\ ownerOrdersLoading = TRUE
  /\ drivers = [u \in {} |-> ""]
  /\ driversLoading = TRUE
  /\ driverSelections = [o \in OrderIds |-> ""]
  /\ driverSelectedStatus = [d \in Sessions |-> "CONFIRMED"]
  /\ driverOrders = [d \in Sessions |-> EmptyList]
  /\ driverOrdersLoading = [d \in Sessions |-> TRUE]
  /\ unassignedOrders = [d \in Sessions |-> EmptyList]
  /\ actionMessage = [d \in Sessions |-> Null]
  /\ last = NoOp
  /\ CustomerInit
  /\ PageInit
  /\ DashboardInit
  /\ requiredRole \in {"OWNER", "DRIVER"}
  /\ profiles \in [Principals -> ProfileShapes]
  /\ currentUser \in Principals \cup {Null}
  /\ authz = CallbackState(currentUser)
  /\ calls = CallsAfter(<< >>, currentUser)
  /\ isMounted = TRUE
  /\ redirect = IF currentUser = Null THEN redirectPath ELSE Null

ordersVars == <<now, store, ownerVars, driverVars, pageVars>>

\* the signed-in identity changes (sign-in on a login screen, Log out, a
\* sign-out elsewhere); a mounted screen's onAuthStateChanged callback runs
\* up to its await
AuthStateChanged(user) ==
  /\ user # currentUser
  /\ user # Null => Len(calls) < MaxCalls
  /\ currentUser' = user
  /\ IF isMounted
       THEN /\ authz' = CallbackState(user)
            /\ calls' = CallsAfter(calls, user)
            /\ redirect' = IF user = Null THEN redirectPath ELSE Null
       ELSE /\ redirect' = Null
            /\ UNCHANGED <<authz, calls>>
  /\ last' = AuthzOp("identity", user, Null, Null)
  /\ UNCHANGED <<ordersVars, customerVars, dashVars, requiredRole, profiles,
                 isMounted>>

\* await getUserRole(user.uid) of callback i returns or throws; the callback
\* either sets the granted state or calls signOut(auth), whose
\* onAuthStateChanged(null) callback runs before the await on it returns
LookupDone(i, threw) ==
  /\ i \in DOMAIN calls
  /\ calls[i].pc = "lookup"
  /\ LET user == calls[i].user
         role == getUserRole(user)
     IN IF ~threw /\ RoleAccepted(role)
          THEN /\ authz' = [loading |-> FALSE, user |-> user, role |-> role,
                            error |-> Null, accessDenied |-> FALSE]
               /\ calls' = [calls EXCEPT ![i].pc = "done"]
               /\ redirect' = Null
               /\ last' = AuthzOp("granted", user, role, Null)
               /\ UNCHANGED currentUser
          ELSE /\ currentUser' = Null
               /\ IF isMounted /\ currentUser # Null
                    THEN /\ authz' = CallbackState(Null)
                         /\ redirect' = redirectPath
                    ELSE /\ redirect' = Null
                         /\ UNCHANGED authz
               /\ calls' = [calls EXCEPT
                              ![i].pc = IF threw THEN "catch" ELSE "refused"]
               /\ last' = AuthzOp("refused", user,
                                  IF threw THEN Null ELSE role,
                                  IF threw THEN "threw" ELSE Null)
  /\ UNCHANGED <<ordersVars, customerVars, dashVars, requiredRole, profiles,
                 isMounted>>

\* await signOut(auth) of callback i returns: nothing more when unmounted,
\* else the access-denied state and router.replace(redirectPath)
DenyFinish(i) ==
  /\ i \in DOMAIN calls
  /\ calls[i].pc \in {"refused", "catch"}
  /\ calls' = [calls EXCEPT ![i].pc = "done"]
  /\ IF isMounted
       THEN /\ authz' = [loading |-> FALSE, user |-> Null, role |-> Null,
                         error |-> IF calls[i].pc = "catch"
                                     THEN "Access check failed."
                                     ELSE "Access denied for this area.",
                         accessDenied |-> TRUE]
            /\ redirect' = redirectPath
            /\ last' = AuthzOp("denied", calls[i].user, Null, Null)
       ELSE /\ redirect' = Null
            /\ last' = AuthzOp("dropped", calls[i].user, Null, Null)
            /\ UNCHANGED authz
  /\ UNCHANGED <<ordersVars, customerVars, dashVars, requiredRole, currentUser,
                 profiles, isMounted>>

\* the effect's cleanup: the screen is left
Unmount ==
  /\ isMounted
  /\ isMounted' = FALSE
  /\ redirect' = Null
  /\ last' = AuthzOp("unmount", Null, Null, Null)
  /\ UNCHANGED <<ordersVars, customerVars, dashVars, requiredRole, currentUser,
                 profiles, authz, calls>>

\* the gate of the role-specific content and of the subscriptions:
\* !loading && !accessDenied
ContentRendered == isMounted /\ ~authz.loading /\ ~authz.accessDenied

NextAuthz ==
  \/ \E user \in Principals \cup {Null} : AuthStateChanged(user)
  \/ \E i \in 1..MaxCalls, threw \in BOOLEAN : LookupDone(i, threw)
  \/ \E i \in 1..MaxCalls : DenyFinish(i)
  \/ Unmount

SpecAuthz == InitAuthz /\ [][NextAuthz]_vars

\* C14: getUserRole(uid) is null when uid has no role profile, null when the
\* profile has isActive = false whatever its role, null when the stored role
\* is neither OWNER nor DRIVER, and the stored role otherwise
C14_GetUserRole ==
  (last.op \in {"granted", "refused"} /\ last.msg # "threw") =>
    LET profile == profiles[last.actor]
    IN /\ ~profile.exists => last.req = Null
       /\ (profile.exists /\ profile.isActive = "false") => last.req = Null
       /\ (profile.exists /\ profile.role \notin {"OWNER", "DRIVER"}) =>
            last.req = Null
       /\ (/\ profile.exists
           /\ profile.isActive # "false"
           /\ profile.role \in {"OWNER", "DRIVER"}) => last.req = profile.role

C14_Witness ==
  /\ last.op = "refused"
  /\ last.msg # "threw"
  /\ profiles[last.actor].exists
  /\ profiles[last.actor].isActive = "false"
  /\ profiles[last.actor].role = requiredRole

\* C15: role-specific content is rendered (and the subscriptions are open)
\* only while a principal is signed in whose role has been resolved and
\* equals the required role
C15_ContentOnlyForResolvedRole ==
  ContentRendered =>
    /\ currentUser # Null
    /\ authz.user = currentUser
    /\ authz.role = requiredRole
    /\ getUserRole(currentUser) = requiredRole

\* every getUserRole settles and every await on signOut returns
SpecAuthzLive ==
  /\ SpecAuthz
  /\ \A i \in 1..MaxCalls :
       /\ WF_vars(\E threw \in BOOLEAN : LookupDone(i, threw))
       /\ WF_vars(DenyFinish(i))

\* callback i waits for a role that will not be accepted
RefusalPending(i) ==
  /\ i \in DOMAIN calls
  /\ calls[i].pc = "lookup"
  /\ ~(getUserRole(calls[i].user) # Null
       /\ getUserRole(calls[i].user) = requiredRole)

\* the access-denied state with the redirect to the login path issued
DeniedShown ==
  /\ authz.accessDenied
  /\ ~authz.loading
  /\ authz.user = Null
  /\ redirect = redirectPath

\* C16: on a mounted guarded screen every identity change to a signed-in
\* principal starts a role lookup; a lookup that gives null or another role
\* than the required one, or throws, signs the principal out, and the screen
\* then shows access denied with loading = false and redirects to the login
\* path
C16_MismatchSignsOutAndDenies ==
  /\ [](/\ (last.op = "identity" /\ last.actor # Null /\ isMounted) =>
             /\ authz.loading
             /\ authz.user = last.actor
             /\ calls # << >>
             /\ calls[Len(calls)] = [user |-> last.actor, pc |-> "lookup"]
        /\ last.op = "granted" => last.req = requiredRole
        /\ last.op = "refused" =>
             /\ last.req = Null \/ last.req # requiredRole
             /\ currentUser = Null
        /\ last.op = "denied" => DeniedShown
        /\ last.op = "dropped" => ~isMounted)
  /\ \A i \in 1..MaxCalls :
       [](RefusalPending(i) => <>(~isMounted \/ DeniedShown))

C16_Witness ==
  /\ last.op = "denied"
  /\ isMounted
  /\ requiredRole = "DRIVER"
  /\ profiles[last.actor] = [exists |-> TRUE, isActive |-> "true", role |-> "OWNER"]

\* ================================== a guarded screen with its order actions
\* One browser with one guarded screen (the owner's or the driver's, by
\* requiredRole) and the role profiles of Users; the subscriptions and the
\* buttons of that screen exist only behind the content gate.  The other
\* actor works from another browser and is not looked at here.

InitGuard ==
  /\ now = 0
  /\ store = [o \in {} |-> EmptyDoc]
  /\ ownerSelectedStatus = "PENDING"
  /\ ownerOrders = EmptyList
  /\ ownerOrdersLoading = TRUE
  /\ drivers = [u \in {} |-> ""]
  /\ driversLoading = TRUE
  /\ driverSelections = [o \in OrderIds |-> ""]
  /\ driverSelectedStatus = [d \in Sessions |-> "CONFIRMED"]
  /\ driverOrders = [d \in Sessions |-> EmptyList]
  /\ driverOrdersLoading = [d \in Sessions |-> TRUE]
  /\ unassignedOrders = [d \in Sessions |-> EmptyList]
  /\ actionMessage = [d \in Sessions |-> Null]
  /\ last = NoOp
  /\ CustomerInit
  /\ PageInit
  /\ DashboardInit
  /\ requiredRole \in {"OWNER", "DRIVER"}
  /\ profiles = [u \in Principals |-> ProfileOf(u)]
  /\ currentUser \in Principals \cup {Null}
  /\ authz = CallbackState(currentUser)
  /\ calls = CallsAfter(<< >>, currentUser)
  /\ isMounted = TRUE
  /\ redirect = IF currentUser = Null THEN redirectPath ELSE Null

\* OwnerPage renders its content and holds its subscriptions
OwnerScreen == requiredRole = "OWNER" => ContentRendered

\* DriverPage renders its content and holds its subscriptions, with
\* driverUid = user.uid
DriverScreen(d) ==
  requiredRole = "DRIVER" => (ContentRendered /\ authz.user = d)

NextGuard ==
  \/ \E user \in Principals \cup {Null} : AuthStateChanged(user)
  \/ \E i \in 1..MaxCalls, threw \in BOOLEAN : LookupDone(i, threw)
  \/ \E i \in 1..MaxCalls : DenyFinish(i)
  \/ \E c \in Customers, liters \in QuickLiters : handleSubmit(c, liters)
  \/ OwnerScreen /\ OwnerOrdersSnapshot
  \/ OwnerScreen /\ OwnerDriversSnapshot
  \/ \E o \in OrderIds, status \in OrderStatus :
       OwnerScreen /\ OwnerUpdateStatus(o, status)
  \/ \E o \in OrderIds, uid \in Drivers \cup {""} :
       OwnerScreen /\ OwnerSelectDriver(o, uid)
  \/ \E o \in OrderIds : OwnerScreen /\ handleAssignDriver(o)
  \/ \E d \in Sessions : DriverScreen(d) /\ DriverOrdersSnapshot(d)
  \/ \E d \in Sessions : DriverScreen(d) /\ DriverUnassignedSnapshot(d)
  \/ \E d \in Sessions, list \in {"assigned", "unassigned"}, o \in OrderIds,
        status \in OrderStatus :
       DriverScreen(d) /\ DriverUpdateStatus(d, list, o, status)

SpecGuard == InitGuard /\ [][NextGuard]_vars

\* the signed-in principal has been resolved to role
ResolvedTo(role) ==
  /\ currentUser # Null
  /\ authz.user = currentUser
  /\ authz.role = role
  /\ getUserRole(currentUser) = role

\* C17: the guarded screen issues a confirm, cancel, revert or assignment
\* write only while its signed-in principal is resolved to OWNER, and a
\* start-delivery or mark-delivered write only while it is resolved to
\* DRIVER; a customer session writes an order only to create it
C17_WritesOnlyFromResolvedRole ==
  /\ (requiredRole = "OWNER" /\ last.op \in {"ownerStatus", "assign"}) =>
       ResolvedTo("OWNER")
  /\ (requiredRole = "DRIVER" /\ last.op = "driverStatus") =>
       ResolvedTo("DRIVER")
  /\ last.op = "submit" => last.before = EmptyDoc

\* ======================================================= owner dashboard
\* data() of the documents a snapshot of todayQuery can hold: a status of
\* the enumeration or another string, liters a number or not a number (the
\* record then has no liters field)
DashboardDocs ==
  {[status |-> st, liters |-> 1000] : st \in OrderStatus \cup {"ARCHIVED"}}
  \cup {[status |-> st] : st \in OrderStatus \cup {"ARCHIVED"}}

\* snapshots of todayQuery, in the order forEach visits them
Snapshots ==
  UNION {[1..n -> DashboardDocs] : n \in 0..MaxSnapshot}

\* snapshots of a day with only delivered orders: n orders of 1000 liters,
\* or one of 500 liters after at most one of 1000
DeliveredSnapshots ==
  {[i \in 1..n |-> [status |-> "DELIVERED", liters |-> 1000]] :
     n \in 0..MaxDelivered}
  \cup {<<[status |-> "DELIVERED", liters |-> 500]>>,
        <<[status |-> "DELIVERED", liters |-> 1000],
          [status |-> "DELIVERED", liters |-> 500]>>}

\* values of a numeric field of settings/app
PriceValues == {0, 25, 250, 0 - 250}

FeeValues == {0, 20}

GoalValues == {0, 10, 0 - 3}

\* data() of a snapshot of settings/app: each of the three numeric fields
\* is a number or is not one (the record then has no such field)
SettingsData ==
  UNION {{[f \in fields |->
             IF f = "pricePer1000L" THEN price
             ELSE IF f = "deliveryFee" THEN fee
             ELSE goal] :
            price \in PriceValues, fee \in FeeValues, goal \in GoalValues} :
           fields \in SUBSET {"pricePer1000L", "deliveryFee",
                              "dailyDeliveryGoalOrders"}}

\* createEmptyMetrics after a snapshot has been folded into it
createEmptyMetricsCarry == dashboardMetrics

\* createEmptyMetrics()
createEmptyMetrics == EmptyMetrics

\* the body of snapshot.forEach: one document added to the metrics
AddToMetrics(metrics, data) ==
  LET status == data.status
      liters == IF "liters" \in DOMAIN data THEN data.liters ELSE 0
  IN [total |-> metrics.total + 1,
      liters |-> metrics.liters + liters,
      byStatus |->
        IF status \in DOMAIN metrics.byStatus
          THEN [metrics.byStatus EXCEPT ![status] = @ + 1]
          ELSE metrics.byStatus,
      deliveredOrders |->
        IF status = "DELIVERED" THEN metrics.deliveredOrders + 1
        ELSE metrics.deliveredOrders,
      deliveredLiters |->
        IF status = "DELIVERED" THEN metrics.deliveredLiters + liters
        ELSE metrics.deliveredLiters]

\* snapshot.forEach over the documents of a snapshot
RECURSIVE ForEach(_, _)
ForEach(docs, metrics) ==
  IF docs = << >> THEN metrics
  ELSE ForEach(Tail(docs), AddToMetrics(metrics, Head(docs)))

\* a step that is no write to the order collection
Event(op) == [NoOp EXCEPT !.op = op]

\* the dashboard effect starts (the owner opens the dashboard tab)
DashboardOpen ==
  /\ dashboardLoading' = TRUE
  /\ dashboardError' = Null
  /\ last' = Event("dashboardOpen")
  /\ UNCHANGED <<ordersVars, customerVars, authVars, dashboardMetrics,
                 todayDocs, pricePer1000Value, deliveryFeeValue,
                 dailyGoalValue>>

\* onSnapshot(todayQuery) callback
DashboardSnapshot(docs) ==
  /\ dashboardError = Null
  /\ dashboardMetrics' = ForEach(docs, createEmptyMetrics)
  /\ dashboardLoading' = FALSE
  /\ todayDocs' = docs
  /\ last' = Event("dashboard")
  /\ UNCHANGED <<ordersVars, customerVars, authVars, dashboardError,
                 pricePer1000Value, deliveryFeeValue, dailyGoalValue>>

\* onSnapshot(todayQuery) error callback
DashboardFailed ==
  /\ dashboardError = Null
  /\ dashboardError' =
       "Dashboard requires a Firestore index for createdAt date range."
  /\ dashboardLoading' = FALSE
  /\ last' = Event("dashboardError")
  /\ UNCHANGED <<ordersVars, customerVars, authVars, dashboardMetrics,
                 todayDocs, pricePer1000Value, deliveryFeeValue,
                 dailyGoalValue>>

\* onSnapshot(settings/app) callback: a value is taken when it is a number
SettingsSnapshot(data) ==
  /\ pricePer1000Value' =
       IF "pricePer1000L" \in DOMAIN data THEN data.pricePer1000L
       ELSE pricePer1000Value
  /\ deliveryFeeValue' =
       IF "deliveryFee" \in DOMAIN data THEN data.deliveryFee
       ELSE deliveryFeeValue
  /\ dailyGoalValue' =
       IF "dailyDeliveryGoalOrders" \in DOMAIN data
         THEN data.dailyDeliveryGoalOrders
         ELSE dailyGoalValue
  /\ last' = Event("settings")
  /\ UNCHANGED <<ordersVars, customerVars, authVars, dashboardMetrics,
                 dashboardLoading, dashboardError, todayDocs>>

NextDashboard ==
  \/ DashboardOpen
  \/ \E docs \in Snapshots : DashboardSnapshot(docs)
  \/ DashboardFailed

SpecDashboard == Init /\ [][NextDashboard]_vars

\* positions of a snapshot that hold a document with status s
WithStatus(docs, s) == {i \in 1..Len(docs) : docs[i].status = s}

\* sum of the numeric liters of the documents at a set of positions
RECURSIVE SumLiters(_, _)
SumLiters(docs, positions) ==
  IF positions = {} THEN 0
  ELSE LET i == CHOOSE x \in positions : TRUE
       IN (IF "liters" \in DOMAIN docs[i] THEN docs[i].liters ELSE 0)
          + SumLiters(docs, positions \ {i})

\* C18: after a snapshot the dashboard metrics are those of that snapshot
\* alone: total its number of orders, liters the sum of their numeric
\* liters, byStatus[s] the number of its orders with status s for each of
\* the five statuses, deliveredOrders = byStatus[DELIVERED], deliveredLiters
\* the sum of liters over its DELIVERED orders
C18_MetricsOfSnapshotAlone ==
  last.op = "dashboard" =>
    /\ dashboardMetrics.total = Len(todayDocs)
    /\ dashboardMetrics.liters = SumLiters(todayDocs, 1..Len(todayDocs))
    /\ DOMAIN dashboardMetrics.byStatus = OrderStatus
    /\ \A s \in OrderStatus :
         dashboardMetrics.byStatus[s] = Cardinality(WithStatus(todayDocs, s))
    /\ dashboardMetrics.deliveredOrders = dashboardMetrics.byStatus["DELIVERED"]
    /\ dashboardMetrics.deliveredLiters =
         SumLiters(todayDocs, WithStatus(todayDocs, "DELIVERED"))

C18_Witness ==
  /\ last.op = "dashboard"
  /\ Len(todayDocs) = 2
  /\ dashboardMetrics.byStatus["DELIVERED"] = 1
  /\ dashboardMetrics.byStatus["PENDING"] = 0
  /\ dashboardMetrics.deliveredLiters = 0
  /\ dashboardMetrics.liters = 1000

\* ------------------------------------------- revenue and goal progress
\* Number(value) || 0 for a number
NumberOr0(value) == IF value # 0 THEN value ELSE 0

\* the dashboard figures are rendered: !dashboardLoading && !dashboardError
FiguresRendered == ~dashboardLoading /\ dashboardError = Null

deliveredOrdersToday == dashboardMetrics.deliveredOrders

\* deliveredRevenueToday without the delivery fees
deliveredRevenueTodayNoFee ==
  LET pricePer1000 == NumberOr0(pricePer1000Value)
  IN IF pricePer1000 > 0
       THEN dashboardMetrics.deliveredLiters * pricePer1000
       ELSE 0

\* deliveredRevenueToday, in thousandths:
\* pricePer1000 > 0 ? (deliveredLiters / 1000) * pricePer1000
\*                    + deliveryFee * deliveredOrdersToday : 0
deliveredRevenueToday ==
  LET pricePer1000 == NumberOr0(pricePer1000Value)
      deliveryFee == NumberOr0(deliveryFeeValue)
  IN IF pricePer1000 > 0
       THEN dashboardMetrics.deliveredLiters * pricePer1000
            + 1000 * deliveryFee * deliveredOrdersToday
       ELSE 0

\* Math.round of a number given in thousandths: floor(x + 0.5)
MathRound(thousandths) == (thousandths + 500) \div 1000

\* the figure shown: R {Math.round(deliveredRevenueToday).toLocaleString()}
\* (the digit grouping of toLocaleString is left out)
shownRevenue == MathRound(deliveredRevenueToday)

\* Math.min of two fractions <<numerator, denominator>> with positive
\* denominators
MathMin(a, b) == IF a[1] * b[2] <= b[1] * a[2] THEN a ELSE b

\* progress without the cap at 1
progressUncapped ==
  LET dailyGoal == NumberOr0(dailyGoalValue)
  IN IF dailyGoal > 0 THEN <<deliveredOrdersToday, dailyGoal>> ELSE <<0, 1>>

\* progress, as a fraction:
\* dailyGoal > 0 ? Math.min(deliveredOrdersToday / dailyGoal, 1) : 0
progress ==
  LET dailyGoal == NumberOr0(dailyGoalValue)
  IN IF dailyGoal > 0
       THEN MathMin(<<deliveredOrdersToday, dailyGoal>>, <<1, 1>>)
       ELSE <<0, 1>>

NextRender ==
  \/ DashboardOpen
  \/ \E docs \in DeliveredSnapshots : DashboardSnapshot(docs)
  \/ DashboardFailed
  \/ \E data \in SettingsData : SettingsSnapshot(data)

SpecRender == Init /\ [][NextRender]_vars

\* the revenue formula in thousandths
RevenueFormula ==
  dashboardMetrics.deliveredLiters * pricePer1000Value
  + 1000 * deliveryFeeValue * dashboardMetrics.deliveredOrders

\* C19 as stated: the displayed delivered revenue equals
\* (deliveredLiters / 1000) * pricePer1000 + deliveryFee * deliveredOrders
\* when pricePer1000 > 0 and 0 when it is unset or not positive
C19_ShownRevenueIsFormula ==
  FiguresRendered =>
    1000 * shownRevenue = IF pricePer1000Value > 0 THEN RevenueFormula ELSE 0

\* C19 amended: the displayed delivered revenue is the formula's value
\* rounded to the nearest whole number, halves up, when pricePer1000 > 0,
\* and 0 when it is unset or not positive
C19_ShownRevenueIsRoundedFormula ==
  FiguresRendered =>
    IF pricePer1000Value > 0
      THEN /\ 1000 * shownRevenue - 500 <= RevenueFormula
           /\ RevenueFormula < 1000 * shownRevenue + 500
      ELSE shownRevenue = 0

C19_Witness ==
  /\ FiguresRendered
  /\ dashboardMetrics.deliveredLiters = 1500
  /\ dashboardMetrics.deliveredOrders = 2
  /\ pricePer1000Value = 250
  /\ deliveryFeeValue = 20
  /\ shownRevenue = 415

\* C20: goal progress is min(deliveredOrders / dailyGoal, 1) when
\* dailyGoal > 0 and 0 otherwise, so it lies in [0, 1]
C20_ProgressIsCappedRatio ==
  FiguresRendered =>
    /\ progress[2] > 0
    /\ 0 <= progress[1] /\ progress[1] <= progress[2]
    /\ (dailyGoalValue > 0 /\ dashboardMetrics.deliveredOrders <= dailyGoalValue)
         => progress[1] * dailyGoalValue
              = dashboardMetrics.deliveredOrders * progress[2]
    /\ (dailyGoalValue > 0 /\ dashboardMetrics.deliveredOrders > dailyGoalValue)
         => progress[1] = progress[2]
    /\ ~(dailyGoalValue > 0) => progress[1] = 0

C20_Witness ==
  /\ FiguresRendered
  /\ dailyGoalValue = 10
  /\ dashboardMetrics.deliveredOrders = 15
  /\ progress = <<1, 1>>

\* ================================================ frame of the order writes
\* the fields of an order document that describe the order
Descriptive == {"customerUid", "liters", "scheduleType", "scheduledFor"}

\* the fields in which the stored order differs from what it was before the
\* write that produced this state
Written == {f \in DOMAIN last.before : store[last.order][f] # last.before[f]}

\* the driver's write was made from a card that showed no assigned driver
FromUnassignedCard ==
  last.req = "OUT_FOR_DELIVERY" /\ last.seen.assignedDriverUid = Null

\* C23: no owner or driver operation changes the descriptive fields or
\* createdAt of an order; an owner status change changes only status and
\* updatedAt (a revert to PENDING keeps the assigned driver), an owner
\* assignment only assignedDriverUid, assignedDriverName and updatedAt, a
\* driver transition only status, updatedAt and, when it claims the order,
\* the assigned-driver pair
C23_WritesOnlyTheirFields ==
  /\ Operated => Written \cap (Descriptive \cup {"createdAt"}) = {}
  /\ last.op = "ownerStatus" => Written \subseteq {"status", "updatedAt"}
  /\ last.op = "assign" =>
       Written \subseteq {"assignedDriverUid", "assignedDriverName", "updatedAt"}
  /\ last.op = "driverStatus" =>
       Written \subseteq
         {"status", "updatedAt"} \cup
         (IF FromUnassignedCard
            THEN {"assignedDriverUid", "assignedDriverName"} ELSE {})

\* C23 witness: the owner has just reverted an assigned CONFIRMED order to
\* PENDING at a later clock value and the driver is still assigned.
C23_Witness ==
  /\ last.op = "ownerStatus"
  /\ last.req = "PENDING"
  /\ last.before.status = "CONFIRMED"
  /\ last.before.assignedDriverUid # Null
  /\ Written = {"status", "updatedAt"}
  /\ store[last.order].assignedDriverUid = last.before.assignedDriverUid

\* C27: every stored order that is OUT_FOR_DELIVERY or DELIVERED has an
\* assigned driver.
C27_InDeliveryHasDriver ==
  \A o \in DOMAIN store :
    store[o].status \in {"OUT_FOR_DELIVERY", "DELIVERED"} =>
      store[o].assignedDriverUid # Null

\* C27 witness: a driver has just started the delivery of a stored order
\* that had no assigned driver.
C27_Witness ==
  /\ last.op = "driverStatus"
  /\ last.msg = Null
  /\ last.req = "OUT_FOR_DELIVERY"
  /\ last.before.assignedDriverUid = Null
  /\ store[last.order].status = "OUT_FOR_DELIVERY"
  /\ store[last.order].assignedDriverUid = last.actor

\* C28: a mark-delivered write is applied only to an order that is stored as
\* assigned to the driver whose session writes it.
C28_DeliveredByAssignedDriver ==
  (last.op = "driverStatus" /\ last.msg = Null /\ last.req = "DELIVERED") =>
    last.before.assignedDriverUid = last.actor

\* ================================================= stale role lookups
\* callback i has just set the granted state
GrantedBy(i) ==
  /\ i \in DOMAIN calls
  /\ calls[i].pc = "lookup"
  /\ calls'[i].pc = "done"
  /\ last'.op = "granted"

\* C26: the completion of a role lookup sets the granted state only on a
\* mounted screen and only over the loading state of its own identity event:
\* no later identity event (a sign-out, another principal) has been observed
\* since the lookup started
C26_LookupCompletesOnlyIfCurrent ==
  [][\A i \in 1..MaxCalls :
       GrantedBy(i) =>
         /\ isMounted
         /\ i = Len(calls)
         /\ authz = CallbackState(calls[i].user)
         /\ currentUser = calls[i].user]_vars

\* the same users query as driversQuery, over the role profiles of the
\* variable profiles:
\* where("role", "==", "DRIVER"), where("isActive", "==", true)
assignableDrivers ==
  {u \in DOMAIN profiles :
     /\ profiles[u].exists
     /\ profiles[u].role = "DRIVER"
     /\ profiles[u].isActive = "true"}

\* C29: the principals the owner's drivers query returns are those that
\* getUserRole resolves to DRIVER, whatever the shape of the role profiles
C29_AssignableIffResolvedDriver ==
  \A u \in DOMAIN profiles :
    u \in assignableDrivers <=> getUserRole(u) = "DRIVER"

\* ============================================ two driver sessions, no owner
\* Every driver of Drivers has a DriverPage open; the orders are stored
\* CONFIRMED, assigned or not, and the owner does nothing more to them.

ConfirmedOrders == {doc \in StoredOrders : doc.status = "CONFIRMED"}

InitDrivers ==
  /\ now = 0
  /\ store \in [OrderIds -> ConfirmedOrders]
  /\ ownerSelectedStatus = "PENDING"
  /\ ownerOrders = EmptyList
  /\ ownerOrdersLoading = TRUE
  /\ drivers = [u \in {} |-> ""]
  /\ driversLoading = TRUE
  /\ driverSelections = [o \in OrderIds |-> ""]
  /\ driverSelectedStatus = [d \in Drivers |-> "CONFIRMED"]
  /\ driverOrders = [d \in Drivers |-> EmptyList]
  /\ driverOrdersLoading = [d \in Drivers |-> TRUE]
  /\ unassignedOrders = [d \in Drivers |-> EmptyList]
  /\ actionMessage = [d \in Drivers |-> Null]
  /\ last = NoOp
  /\ CustomerInit
  /\ todayRange = [start |-> startOfToday, end |-> endOfToday]
  /\ ownerOrdersError = Null
  /\ driverOrdersError = [d \in Drivers |-> Null]
  /\ unassignedError = [d \in Drivers |-> Null]
  /\ myOrdersError = Null
  /\ activeTab = "orders"
  /\ listeners = [slot \in Slots |-> {}]
  /\ effectDeps = [slot \in Slots |-> << >>]
  /\ DashboardInit
  /\ AuthzIdle

\* a click on a button of some rendered card of driver d
DriverClick(d) ==
  \E list \in {"assigned", "unassigned"}, o \in OrderIds, status \in OrderStatus :
    DriverUpdateStatus(d, list, o, status)

NextDrivers ==
  \/ \E d \in Drivers : DriverOrdersSnapshot(d)
  \/ \E d \in Drivers : DriverUnassignedSnapshot(d)
  \/ \E d \in Drivers, status \in DriverTab : handleStatusChange(d, status)
  \/ \E d \in Drivers : DriverClick(d)

SpecDrivers == InitDrivers /\ [][NextDrivers]_vars

\* a start delivery from a card that showed the order CONFIRMED and
\* unassigned, on an order another driver's start delivery had already
\* taken
SecondClaim ==
  /\ last.op = "driverStatus"
  /\ last.req = "OUT_FOR_DELIVERY"
  /\ last.seen.status = "CONFIRMED"
  /\ last.seen.assignedDriverUid = Null
  /\ last.before.status = "OUT_FOR_DELIVERY"

\* C24: when two driver sessions show the same unassigned CONFIRMED order
\* and both start its delivery before either receives the other's update,
\* the second write is not rejected and is applied over the first: the
\* order stays OUT_FOR_DELIVERY and is assigned to the driver who wrote last
C24_DoubleClaimLastWriteWins ==
  SecondClaim =>
    /\ last.msg = Null
    /\ actionMessage[last.actor] = Null
    /\ last.before.assignedDriverUid \in Drivers \ {last.actor}
    /\ store[last.order].status = "OUT_FOR_DELIVERY"
    /\ store[last.order].assignedDriverUid = last.actor
    /\ store[last.order].assignedDriverName # last.before.assignedDriverName

\* C24 witness: d2 has started the delivery of an order that d1 had claimed
\* from the unassigned list, and the order is now assigned to d2.
C24_Witness ==
  /\ SecondClaim
  /\ last.actor = "d2"
  /\ last.before.assignedDriverUid = "d1"
  /\ store[last.order].assignedDriverUid = "d2"

\* snapshots are delivered and the drivers keep using their screens
SpecDriversLive ==
  /\ SpecDrivers
  /\ \A d \in Drivers :
       /\ WF_vars(DriverOrdersSnapshot(d))
       /\ WF_vars(DriverUnassignedSnapshot(d))
       /\ WF_vars(DriverClick(d))
       /\ \A status \in DriverTab : WF_vars(handleStatusChange(d, status))

\* every CONFIRMED order is eventually DELIVERED
ConfirmedLeadsToDelivered ==
  \A o \in OrderIds :
    (o \in DOMAIN store /\ store[o].status = "CONFIRMED")
      ~> (store[o].status = "DELIVERED")

SnapshotOnTab(d, tab) ==
  driverSelectedStatus[d] = tab /\ DriverOrdersSnapshot(d)

\* a driver who keeps coming back to a tab gets its snapshot there and, when
\* a button keeps being shown, clicks it
StrongFairness ==
  \A d \in Drivers :
    /\ SF_vars(DriverClick(d))
    /\ SF_vars(DriverUnassignedSnapshot(d))
    /\ \A tab \in DriverTab : SF_vars(SnapshotOnTab(d, tab))

todayQuery ==
  {o \in DOMAIN store :
     /\ store[o].createdAt >= todayRange.start
     /\ store[o].createdAt < todayRange.end}

\* orderBy("createdAt", "desc") over a set of stored orders
RECURSIVE CreatedAtDesc(_)
CreatedAtDesc(ids) ==
  IF ids = {} THEN << >>
  ELSE LET first == CHOOSE x \in ids :
                      \A y \in ids :
                        \/ store[x].createdAt > store[y].createdAt
                        \/ store[x].createdAt = store[y].createdAt /\ x >= y
       IN <<first>> \o CreatedAtDesc(ids \ {first})

\* the snapshot of todayQuery: data() of its documents as the dashboard
\* callback reads them
TodayDocs ==
  LET ids == CreatedAtDesc(todayQuery)
  IN [i \in 1..Len(ids) |->
        [status |-> store[ids[i]].status, liters |-> store[ids[i]].liters]]

\* the local clock (and the server's) advances
ClockTick ==
  /\ now < MaxClock
  /\ now' = now + 1
  /\ last' = NoOp
  /\ UNCHANGED auxVars
  /\ UNCHANGED <<store, ownerVars, driverVars>>

\* the owner page is loaded: todayRange is computed, the dashboard state
\* starts from its useState initial values
OwnerMount ==
  /\ todayRange' = [start |-> startOfToday, end |-> endOfToday]
  /\ dashboardMetrics' = EmptyMetrics
  /\ dashboardLoading' = TRUE
  /\ dashboardError' = Null
  /\ last' = Event("mount")
  /\ UNCHANGED <<now, store, ownerVars, driverVars, customerVars, authVars,
                 todayDocs, pricePer1000Value, deliveryFeeValue,
                 dailyGoalValue, ownerOrdersError, driverOrdersError,
                 unassignedError, myOrdersError, activeTab, listeners,
                 effectDeps>>

NextToday ==
  \/ ClockTick
  \/ \E c \in Customers, liters \in QuickLiters : handleSubmit(c, liters)
  \/ OwnerMount
  \/ DashboardOpen
  \/ DashboardSnapshot(TodayDocs)

SpecToday == Init /\ [][NextToday]_vars

\* the orders created on the day of the clock
CreatedToday ==
  {o \in DOMAIN store :
     /\ store[o].createdAt >= startOfToday
     /\ store[o].createdAt < endOfToday}

\* C25: at every snapshot the dashboard processes, also after the local date
\* has changed while the page stays open, the metrics cover exactly the
\* orders created in [local midnight of the current day, next midnight)
C25_MetricsCoverCurrentDay ==
  last.op = "dashboard" =>
    /\ todayQuery = CreatedToday
    /\ dashboardMetrics.total = Cardinality(CreatedToday)

\* the snapshots of the day the page was loaded on cover that day
SnapshotOnMountDayCoversIt ==
  (last.op = "dashboard" /\ todayRange.start = startOfToday) =>
    /\ todayQuery = CreatedToday
    /\ dashboardMetrics.total = Cardinality(CreatedToday)

\* ======================================== failures of the live order queries
\* A message is the sequence of its characters; the fixed texts the screens
\* substitute are kept whole, as a sequence of one element.

UpperCase ==
  <<"A", "B", "C", "D", "E", "F", "G", "H", "I", "J", "K", "L", "M",
    "N", "O", "P", "Q", "R", "S", "T", "U", "V", "W", "X", "Y", "Z">>

LowerCase ==
  <<"a", "b", "c", "d", "e", "f", "g", "h", "i", "j", "k", "l", "m",
    "n", "o", "p", "q", "r", "s", "t", "u", "v", "w", "x", "y", "z">>

\* String.prototype.toLowerCase
toLowerCase(text) ==
  [i \in 1..Len(text) |->
     IF \E k \in 1..Len(UpperCase) : UpperCase[k] = text[i]
       THEN LowerCase[CHOOSE k \in 1..Len(UpperCase) : UpperCase[k] = text[i]]
       ELSE text[i]]

\* String.prototype.includes
includes(text, part) ==
  \E i \in 0..(Len(text) - Len(part)) :
    SubSeq(text, i + 1, i + Len(part)) = part

\* the text "index"
IndexWord == <<"i", "n", "d", "e", "x">>

\* err.message of the query failures: the store's report of a missing index,
\* a refusal by the security rules, and a failure of the local cache
MissingIndexMessage ==
  <<"T", "h", "e", " ", "q", "u", "e", "r", "y", " ", "r", "e", "q", "u",
  "i", "r", "e", "s", " ", "a", "n", " ", "i", "n", "d", "e", "x", ".">>

PermissionMessage ==
  <<"M", "i", "s", "s", "i", "n", "g", " ", "o", "r", " ", "i", "n", "s",
  "u", "f", "f", "i", "c", "i", "e", "n", "t", " ", "p", "e", "r", "m", "i",
  "s", "s", "i", "o", "n", "s", ".">>

CacheMessage ==
  <<"I", "n", "d", "e", "x", "e", "d", "D", "B", " ", "t", "r", "a", "n",
  "s", "a", "c", "t", "i", "o", "n", " ", "f", "a", "i", "l", "e", "d",
  ".">>

QueryErrors ==
  {[cause |-> "missing-index", message |-> MissingIndexMessage],
   [cause |-> "permission", message |-> PermissionMessage],
   [cause |-> "cache", message |-> CacheMessage]}

OwnerNeedsIndex ==
  <<"This query needs a Firestore index. Please open the Firebase Console and create the suggested index for orders by status + createdAt.">>

DriverNeedsIndex ==
  <<"This query needs a Firestore index. Please open the Firebase Console and create the suggested index for assignedDriverUid + status + createdAt.">>

DashboardNeedsIndex ==
  <<"Dashboard requires a Firestore index for createdAt date range.">>

\* formatIndexError of OwnerPage
formatIndexErrorOwner(message) ==
  IF ~includes(toLowerCase(message), IndexWord) THEN message
  ELSE OwnerNeedsIndex

\* formatIndexError of DriverPage
formatIndexErrorDriver(message) ==
  IF ~includes(toLowerCase(message), IndexWord) THEN message
  ELSE DriverNeedsIndex

\* a failure of a live query in the history variable: the query, the cause
\* and err.message
QueryFailure(slot, err) ==
  [NoOp EXCEPT !.op = "queryError", !.actor = slot, !.req = err.cause,
               !.msg = err.message]

\* error callback of onSnapshot(statusQuery) of OwnerPage
OwnerOrdersFailed(err) ==
  /\ ownerOrdersError' = formatIndexErrorOwner(err.message)
  /\ ownerOrdersLoading' = FALSE
  /\ last' = QueryFailure("ownerOrders", err)
  /\ UNCHANGED <<now, store, ownerSelectedStatus, ownerOrders, drivers,
                 driversLoading, driverSelections, driverVars, customerVars,
                 authVars, dashVars, todayRange, driverOrdersError,
                 unassignedError, myOrdersError, activeTab, listeners,
                 effectDeps>>

\* error callback of onSnapshot(todayQuery) of OwnerPage
DashboardQueryFailed(err) ==
  /\ dashboardError' =
       IF includes(toLowerCase(err.message), IndexWord)
         THEN DashboardNeedsIndex
         ELSE err.message
  /\ dashboardLoading' = FALSE
  /\ last' = QueryFailure("dashboard", err)
  /\ UNCHANGED <<ordersVars, customerVars, authVars, dashboardMetrics,
                 todayDocs, pricePer1000Value, deliveryFeeValue,
                 dailyGoalValue>>

\* error callback of onSnapshot(assignedQuery) of DriverPage
DriverOrdersFailed(d, err) ==
  /\ driverOrdersError' =
       [driverOrdersError EXCEPT ![d] = formatIndexErrorDriver(err.message)]
  /\ driverOrdersLoading' = [driverOrdersLoading EXCEPT ![d] = FALSE]
  /\ last' = QueryFailure("driverAssigned", err)
  /\ UNCHANGED <<now, store, ownerVars, driverSelectedStatus, driverOrders,
                 unassignedOrders, actionMessage, customerVars, authVars,
                 dashVars, todayRange, ownerOrdersError, unassignedError,
                 myOrdersError, activeTab, listeners, effectDeps>>

\* error callback of onSnapshot(unassignedQuery) of DriverPage
DriverUnassignedFailed(d, err) ==
  /\ driverSelectedStatus[d] = "CONFIRMED"
  /\ unassignedError' =
       [unassignedError EXCEPT ![d] = formatIndexErrorDriver(err.message)]
  /\ last' = QueryFailure("driverUnassigned", err)
  /\ UNCHANGED <<now, store, ownerVars, driverVars, customerVars, authVars,
                 dashVars, todayRange, ownerOrdersError, driverOrdersError,
                 myOrdersError, activeTab, listeners, effectDeps>>

\* error callback of onSnapshot(myOrdersQuery) of CustomerPage
MyOrdersFailed(err) ==
  /\ authUser # Null
  /\ myOrdersError' = err.message
  /\ last' = QueryFailure("myOrders", err)
  /\ UNCHANGED <<now, store, ownerVars, driverVars, customerVars, authVars,
                 dashVars, todayRange, ownerOrdersError, driverOrdersError,
                 unassignedError, activeTab, listeners, effectDeps>>

NextErrors ==
  \/ \E user \in CustomerPrincipals : CustomerAuthStateChanged(user)
  \/ \E err \in QueryErrors : OwnerOrdersFailed(err)
  \/ \E err \in QueryErrors : DashboardQueryFailed(err)
  \/ \E d \in Sessions, err \in QueryErrors : DriverOrdersFailed(d, err)
  \/ \E d \in Sessions, err \in QueryErrors : DriverUnassignedFailed(d, err)
  \/ \E err \in QueryErrors : MyOrdersFailed(err)

SpecErrors == Init /\ [][NextErrors]_vars

\* the error a screen shows for the query that has just failed
Surfaced ==
  CASE last.actor = "ownerOrders" -> ownerOrdersError
    [] last.actor = "dashboard" -> dashboardError
    [] last.actor = "driverAssigned" -> driverOrdersError["d1"]
    [] last.actor = "driverUnassigned" -> unassignedError["d1"]
    [] last.actor = "myOrders" -> myOrdersError

\* the texts that tell the user that a query needs an index
NeedsIndexTexts == {OwnerNeedsIndex, DriverNeedsIndex, DashboardNeedsIndex}

\* C22: for each of the five live order queries a failure caused by a
\* missing index is shown as a needs-index text, and every other failure is
\* shown with its own message, unchanged
C22_MissingIndexIsDistinguished ==
  last.op = "queryError" =>
    IF last.req = "missing-index"
      THEN Surfaced \in NeedsIndexTexts
      ELSE Surfaced = last.msg

\* on the owner and driver screens a missing index is shown as a needs-index
\* text, and a message without the word is passed through
OwnerAndDriverScreensFormat ==
  (last.op = "queryError" /\ last.actor # "myOrders") =>
    /\ last.req = "missing-index" => Surfaced \in NeedsIndexTexts
    /\ ~includes(toLowerCase(last.msg), IndexWord) => Surfaced = last.msg

\* ================================================== the live subscriptions
\* Every subscription of a guarded screen is made by an effect whose cleanup
\* unsubscribes it.  listeners[slot] holds the dependency values of the
\* subscriptions of a slot that have not been unsubscribed; effectDeps[slot]
\* holds the dependency values of the last run of the slot's effect.

OwnerSlots == {"auth", "orders", "dashboard", "drivers", "settings"}

DriverSlots == {"auth", "assigned", "unassigned", "driverSettings"}

\* the effects of the screen that requiredRole guards, while it is mounted
Mounted(slot) ==
  /\ isMounted
  /\ slot \in (IF requiredRole = "OWNER" THEN OwnerSlots ELSE DriverSlots)

\* DriverPage.assignedQuery: null without a driverUid
assignedQueryKey ==
  IF authz.user = Null THEN << >>
  ELSE <<authz.user, driverSelectedStatus["d1"]>>

\* DriverPage.unassignedQuery: null unless the CONFIRMED tab is selected
unassignedQueryKey ==
  IF driverSelectedStatus["d1"] # "CONFIRMED" THEN << >> ELSE <<"CONFIRMED">>

\* the dependency array of the effect of a slot
Deps(slot) ==
  CASE slot = "auth" -> <<redirectPath, requiredRole>>
    [] slot = "orders" ->
         <<ownerSelectedStatus, authz.loading, authz.accessDenied, activeTab>>
    [] slot = "dashboard" ->
         <<todayRange, authz.loading, authz.accessDenied, activeTab>>
    [] slot = "drivers" -> <<authz.loading, authz.accessDenied, activeTab>>
    [] slot = "settings" -> <<authz.loading, authz.accessDenied>>
    [] slot = "assigned" ->
         <<assignedQueryKey, authz.loading, authz.accessDenied>>
    [] slot = "unassigned" ->
         <<unassignedQueryKey, authz.loading, authz.accessDenied>>
    [] slot = "driverSettings" -> <<authz.loading, authz.accessDenied>>

\* the condition under which the effect of a slot subscribes (the negation
\* of its early return)
Guard(slot) ==
  CASE slot = "auth" -> TRUE
    [] slot = "orders" ->
         ~(authz.loading \/ authz.accessDenied \/ activeTab # "orders")
    [] slot = "dashboard" ->
         ~(authz.loading \/ authz.accessDenied \/ activeTab # "dashboard")
    [] slot = "drivers" ->
         ~(authz.loading \/ authz.accessDenied \/ activeTab # "orders")
    [] slot = "settings" -> ~(authz.loading \/ authz.accessDenied)
    [] slot = "assigned" ->
         ~(authz.loading \/ authz.accessDenied \/ assignedQueryKey = << >>)
    [] slot = "unassigned" ->
         ~(authz.loading \/ authz.accessDenied \/ unassignedQueryKey = << >>)
    [] slot = "driverSettings" -> ~(authz.loading \/ authz.accessDenied)

\* the dependency values of a slot in the current render: none when the
\* effect's component is not mounted
Rendered(slot) == IF Mounted(slot) THEN <<Deps(slot)>> ELSE << >>

\* an effect whose cleanup returns without unsubscribing
CleanupNone(subscribed, ran) == subscribed

\* the cleanup of the previous run of an effect: () => unsubscribe()
Cleanup(subscribed, ran) ==
  IF ran = << >> THEN subscribed ELSE subscribed \ {ran[1]}

\* the effect of a slot has to run: its dependencies changed, it was mounted
\* or it was unmounted
Fires(slot) == Rendered(slot) # effectDeps[slot]

\* the effect of a slot runs and passes its early return
Subscribes(slot) == Fires(slot) /\ Mounted(slot) /\ Guard(slot)

EffectsPending == \E slot \in Slots : Fires(slot)

\* React runs the effects of the committed render: for every effect whose
\* dependencies changed, the cleanup of its previous run and then its body
RunEffects ==
  /\ EffectsPending
  /\ listeners' =
       [slot \in Slots |->
          IF ~Fires(slot) THEN listeners[slot]
          ELSE Cleanup(listeners[slot], effectDeps[slot])
                 \cup (IF Subscribes(slot) THEN {Deps(slot)} ELSE {})]
  /\ effectDeps' = [slot \in Slots |-> Rendered(slot)]
  /\ ownerOrdersLoading' =
       IF Subscribes("orders") THEN TRUE ELSE ownerOrdersLoading
  /\ ownerOrdersError' = IF Subscribes("orders") THEN Null ELSE ownerOrdersError
  /\ dashboardLoading' =
       IF Subscribes("dashboard") THEN TRUE ELSE dashboardLoading
  /\ dashboardError' = IF Subscribes("dashboard") THEN Null ELSE dashboardError
  /\ driversLoading' = IF Subscribes("drivers") THEN TRUE ELSE driversLoading
  /\ last' = Event("effects")
  /\ UNCHANGED <<now, store, ownerSelectedStatus, ownerOrders, drivers,
                 driverSelections, driverVars, customerVars, authVars,
                 dashboardMetrics, todayDocs, pricePer1000Value,
                 deliveryFeeValue, dailyGoalValue, todayRange,
                 driverOrdersError, unassignedError, myOrdersError, activeTab>>

\* a tab button of the owner screen: setActiveTab(tab)
SetActiveTab(tab) ==
  /\ tab # activeTab
  /\ activeTab' = tab
  /\ last' = Event("tab")
  /\ UNCHANGED <<now, store, ownerVars, driverVars, customerVars, authVars,
                 dashVars, todayRange, ownerOrdersError, driverOrdersError,
                 unassignedError, myOrdersError, listeners, effectDeps>>

\* the confirmed orders that no driver has taken
UnassignedOrders == {doc \in ConfirmedOrders : doc.assignedDriverUid = Null}

\* a guarded screen after mount, the first onAuthStateChanged callback and
\* the first run of its effects, with an unassigned order in the store
InitSubs ==
  /\ now = 0
  /\ store \in [OrderIds -> UnassignedOrders]
  /\ ownerSelectedStatus = "PENDING"
  /\ ownerOrders = EmptyList
  /\ ownerOrdersLoading = TRUE
  /\ drivers = [u \in {} |-> ""]
  /\ driversLoading = TRUE
  /\ driverSelections = [o \in OrderIds |-> ""]
  /\ driverSelectedStatus = [d \in Sessions |-> "CONFIRMED"]
  /\ driverOrders = [d \in Sessions |-> EmptyList]
  /\ driverOrdersLoading = [d \in Sessions |-> TRUE]
  /\ unassignedOrders = [d \in Sessions |-> EmptyList]
  /\ actionMessage = [d \in Sessions |-> Null]
  /\ last = NoOp
  /\ CustomerInit
  /\ DashboardInit
  /\ requiredRole \in {"OWNER", "DRIVER"}
  /\ profiles = [u \in Principals |-> ProfileOf(u)]
  /\ currentUser \in Principals \cup {Null}
  /\ authz = CallbackState(currentUser)
  /\ calls = CallsAfter(<< >>, currentUser)
  /\ isMounted = TRUE
  /\ redirect = IF currentUser = Null THEN redirectPath ELSE Null
  /\ todayRange = [start |-> startOfToday, end |-> endOfToday]
  /\ ownerOrdersError = Null
  /\ driverOrdersError = [d \in Sessions |-> Null]
  /\ unassignedError = [d \in Sessions |-> Null]
  /\ myOrdersError = Null
  /\ activeTab = "orders"
  /\ listeners =
       [slot \in Slots |->
          IF Mounted(slot) /\ Guard(slot) THEN {Deps(slot)} ELSE {}]
  /\ effectDeps = [slot \in Slots |-> Rendered(slot)]

\* the content of the owner screen, with its tab buttons, is rendered
OwnerContent == ContentRendered /\ requiredRole = "OWNER"

\* the content of the driver screen, with its status tabs, is rendered
DriverContent == ContentRendered /\ requiredRole = "DRIVER"

\* the steps of a guarded screen; the effects of a render run before any
\* other event is handled, and a snapshot reaches a callback only through a
\* subscription that has not been unsubscribed
NextSubs ==
  \/ RunEffects
  \/ /\ ~EffectsPending
     /\ \E user \in Principals \cup {Null} : AuthStateChanged(user)
  \/ /\ ~EffectsPending
     /\ \E i \in 1..MaxCalls, threw \in BOOLEAN : LookupDone(i, threw)
  \/ /\ ~EffectsPending
     /\ \E i \in 1..MaxCalls : DenyFinish(i)
  \/ ~EffectsPending /\ Unmount
  \/ /\ ~EffectsPending /\ OwnerContent
     /\ \E tab \in OwnerTab : SetActiveTab(tab)
  \/ /\ ~EffectsPending /\ OwnerContent /\ activeTab = "orders"
     /\ \E status \in OrderStatus : OwnerSelectStatus(status)
  \/ /\ ~EffectsPending /\ DriverContent
     /\ \E status \in DriverTab : handleStatusChange("d1", status)
  \/ ~EffectsPending /\ listeners["orders"] # {} /\ OwnerOrdersSnapshot
  \/ ~EffectsPending /\ listeners["drivers"] # {} /\ OwnerDriversSnapshot
  \/ /\ ~EffectsPending /\ listeners["dashboard"] # {}
     /\ DashboardSnapshot(TodayDocs)
  \/ /\ ~EffectsPending /\ listeners["assigned"] # {}
     /\ DriverOrdersSnapshot("d1")
  \/ /\ ~EffectsPending /\ listeners["unassigned"] # {}
     /\ DriverUnassignedSnapshot("d1")

SpecSubs == InitSubs /\ [][NextSubs]_vars

\* at any time at most one subscription is live per slot
OnePerSlot == \A slot \in Slots : Cardinality(listeners[slot]) <= 1

\* once the effects of a render have run, the live subscription of a slot
\* is the one of its current dependencies, and there is none when the
\* slot's context is not active
TornDownWhenInactive ==
  ~EffectsPending =>
    \A slot \in Slots :
      listeners[slot] =
        IF Mounted(slot) /\ Guard(slot) THEN {Deps(slot)} ELSE {}

\* the state of useRequireRole is set only while its subscription is live
AuthStateSetWhileSubscribed == authz' # authz => listeners["auth"] # {}

\* the lists and flags a query's callbacks set change only while a
\* subscription of the query is live
ListsSetWhileSubscribed ==
  /\ ownerOrders' # ownerOrders => listeners["orders"] # {}
  /\ (ownerOrdersLoading /\ ~ownerOrdersLoading') => listeners["orders"] # {}
  /\ (driversLoading /\ ~driversLoading') => listeners["drivers"] # {}
  /\ (dashboardLoading /\ ~dashboardLoading') => listeners["dashboard"] # {}
  /\ (driverOrdersLoading["d1"] /\ ~driverOrdersLoading'["d1"]) =>
       listeners["assigned"] # {}
  /\ unassignedOrders' # unassignedOrders =>
       \/ listeners["unassigned"] # {}
       \/ unassignedOrders'["d1"] = EmptyList

\* C21: every live subscription is torn down when its context stops being
\* active (unmount, tab switched away, status or query changed, access
\* lost), afterwards none of its callbacks sets screen state, and at most
\* one subscription is live per slot
C21_SubscriptionsTornDown ==
  /\ [](OnePerSlot /\ TornDownWhenInactive)
  /\ [][AuthStateSetWhileSubscribed /\ ListsSetWhileSubscribed]_vars

\* the part of C21 about the subscriptions of the order, driver, dashboard
\* and settings queries
QuerySubscriptionsTornDown ==
  /\ [](OnePerSlot /\ TornDownWhenInactive)
  /\ [][ListsSetWhileSubscribed]_vars
====
